---- MODULE Spec2Model ----
(***************************************************************************)
(* Verification model of the Prometheus integration core:                  *)
(*   - the controller's ID cache and its single-flight refresh             *)
(*     (server/controller/prometheus/cache/cache.go),                      *)
(*   - the ingester's cluster-aware per-width ClickHouse writer            *)
(*     (package dbwriter, PrometheusWriter),                               *)
(*   - the querier's remote-read translation and its statsd counter,       *)
(*   - the controller's resource cleaner                                   *)
(*     (server/controller/recorder/cleaner.go),                            *)
(*   - CheckJSONParam (package common).                                    *)
(***************************************************************************)
EXTENDS Integers, Sequences, FiniteSets, TLC

(***************************************************************************)
(* Bounds of the model.                                                    *)
(***************************************************************************)
\* number of callers of tryRefresh besides Start and the ticker goroutine
NumOther == 1
\* WriteCk and WriteApi are called while the counter in place has counted
\* fewer than MaxStat queries and API calls
MaxStat == 1
\* qc.QueryTime and qc.ApiTime reach up to MaxTime
MaxTime == 2
\* MAX_APP_LABEL_COLUMN_INDEX, the largest app label column index, scaled down
MAX_APP_LABEL_COLUMN_INDEX == 3
\* largest batch handed to WriteBatch
MaxBatch == 1
\* cap of the counters MetricsCount and WriteErr
MaxCount == 1
\* the same two bounds for a PrometheusWriter that is the only one built
MaxBatchAlone == 2
MaxCountAlone == 2
\* the warnings of such a PrometheusWriter are counted up to MaxWarnings
MaxWarnings == 2
\* the hints of a remote-read query reach up to MaxSec seconds
MaxSec == 1
\* the most rows the querier answers a SQL with
MaxRows == 3
\* config.Cfg.Prometheus.SeriesLimit, scaled down
SeriesLimit == 2
\* the requests QPSLeakyBucket admits between two refills
BucketCap == 1

(***************************************************************************)
(* ID cache: state                                                         *)
(***************************************************************************)
VARIABLES
    canRefresh,     \* number of tokens buffered in the channel c.canRefresh
    cpc,            \* position of every caller of the cache
    egRunAhead,     \* per caller: the errgroup egRunAhead of its refresh()
    eg,             \* per caller: the errgroup eg of its refresh()
    refreshErr,     \* per caller: the error refresh() returned to tryRefresh
    ctxDone         \* the context handed to Start is cancelled

cvars == <<canRefresh, cpc, egRunAhead, eg, refreshErr, ctxDone>>

(***************************************************************************)
(* Cluster-aware writer: state                                             *)
(***************************************************************************)
VARIABLES
    ckWriters,      \* prometheusCKWriters: per width the published writer, or none
    mutex,          \* prometheusCKWritersMutex: the writer holding it, or NoOne
    running,        \* the CKWriter handles on which Run() was called
    lastPut,        \* the latest ckwriter.Put: the writer and the samples
    tableExists,    \* ClickHouse, this node: prometheus.samples(_local) exist
    localCols,      \* indices i of app_label_value_id_i in samples_local
    distCols,       \* indices i of app_label_value_id_i in samples
    peerTable,      \* per peer node: the tables exist there
    peerCols,       \* per peer node: the app_label_value_id_i columns there
    wpc,            \* position of every PrometheusWriter
    conn,           \* per writer: w.ckdbConn is not nil
    counter,        \* per writer: w.counter
    tagCache,       \* per writer: the metrics whose flow tags were recorded
    warnings,       \* per writer: "get writer failed" lines since its last success
    loc             \* per writer: the locals of the call in progress

wvars == <<ckWriters, mutex, running, lastPut, tableExists, localCols, distCols,
           peerTable, peerCols, wpc, conn, counter, tagCache, warnings, loc>>

VARIABLES
    held,           \* per writer: the value of w.counter a WriteBatch has read for
                    \* its atomic.AddInt64: "none", "current", or "old" once
                    \* GetCounter has replaced it
    returned        \* per writer: the Counter GetCounter returned while a
                    \* WriteBatch held it, as it is now

rvars == <<held, returned>>

(***************************************************************************)
(* Remote-read translator: state                                           *)
(***************************************************************************)
VARIABLES
    bucket,         \* QPSLeakyBucket: the requests it admits before a refill
    qpc,            \* position of the remote-read handler
    req,            \* the request in hand: the show-tag flag and its queries
    trans,          \* what promReaderTransToSQL returned
    result,         \* the common.Result the querier answered
    resp            \* what respTransToProm returned

qvars == <<bucket, qpc, req, trans, result, resp>>

(***************************************************************************)
(* Debug snapshot of the ID cache: state                                   *)
(***************************************************************************)
VARIABLES
    dpc,            \* position of the caller of GetDebugCache
    pending,        \* the iterations the getters chosen by the switch still run
    iterating,      \* the sub-cache structure being iterated, and how
    debugOut        \* what GetDebugCache returned

dvars == <<dpc, pending, iterating, debugOut>>

(***************************************************************************)
(* Querier statsd counter: state                                           *)
(***************************************************************************)
VARIABLES
    ck,             \* the ClickhouseCounter c.ck points to
    handed,         \* the ClickhouseCounter GetCounter returned last
    writeCkM,       \* the goroutine that holds c.writeCkM, or NoOne
    sw              \* the goroutines of WriteCk and WriteApi

svars == <<ck, handed, writeCkM, sw>>

(***************************************************************************)
(* Resource cleaner: state                                                 *)
(***************************************************************************)
VARIABLES
    mysqlDb,        \* the MySQL tables the cleaner reads and deletes from
    lpc,            \* position of the caller of NewResourceCleaner and Start
    tpc,            \* position of the two goroutines Start leaves behind
    cancelled       \* c.cancel() was called

lvars == <<mysqlDb, lpc, tpc, cancelled>>

(***************************************************************************)
(* CheckJSONParam: state                                                   *)
(***************************************************************************)
VARIABLES
    jsonString,     \* the document handed to CheckJSONParam
    vType,          \* the type of the value handed to CheckJSONParam
    jerr            \* what CheckJSONParam returned

jvars == <<jsonString, vType, jerr>>

\* the components added to the first three
extras == <<dvars, svars, lvars, jvars>>

vars == <<cvars, wvars, qvars, extras, rvars>>

\* what the actions of one component leave alone
exceptCache == <<wvars, qvars, extras, rvars>>
exceptWriter == <<cvars, qvars, extras, rvars>>
exceptCounter == <<cvars, qvars, extras>>
exceptQuery == <<cvars, wvars, extras, rvars>>
exceptDebug == <<wvars, qvars, svars, lvars, jvars, rvars>>
exceptStat == <<cvars, wvars, qvars, dvars, lvars, jvars, rvars>>
exceptCleaner == <<cvars, wvars, qvars, dvars, svars, jvars, rvars>>
exceptJSON == <<cvars, wvars, qvars, dvars, svars, lvars, rvars>>

\* the holder of a sync.Mutex that is not locked
NoOne == 0

\* make(chan bool, 1)
CanRefreshCap == 1

StartCaller == 0
TickerCaller == 1
OtherCallers == 2..(1 + NumOther)

\* a second invocation of Start on the singleton, and the ticker goroutine
\* it starts
AgainCaller == 2 + NumOther
AgainTicker == 3 + NumOther

Callers ==
    {StartCaller, TickerCaller} \cup OtherCallers \cup {AgainCaller, AgainTicker}

\* the sub-caches refreshed by egRunAhead and by eg
AheadCaches == {"MetricName", "Label"}
LaterCaches == {"LabelName", "LabelValue", "MetricAndAPPLabelLayout",
                "MetricLabel", "Target", "MetricTarget"}

\* an errgroup.Group: the goroutines it was given (none, running, done) and
\* the first error one of them returned
NewGroup(S) == [st |-> [s \in S |-> "none"], err |-> "nil"]

\* GetSingleton: an empty channel of capacity 1, nothing started
CacheInit ==
    /\ canRefresh = 0
    /\ cpc = [p \in Callers |-> IF p = StartCaller THEN "start"
                                 ELSE IF p = TickerCaller THEN "unborn"
                                 ELSE IF p \in OtherCallers THEN "idle"
                                 ELSE "absent"]
    /\ egRunAhead = [p \in Callers |-> NewGroup(AheadCaches)]
    /\ eg = [p \in Callers |-> NewGroup(LaterCaches)]
    /\ refreshErr = [p \in Callers |-> "none"]
    /\ ctxDone = FALSE

(***************************************************************************)
(* ID cache: channel and errgroup primitives                               *)
(***************************************************************************)
\* a send on the buffered channel is possible while the buffer is not full
ChanCanSend(n) == n < CanRefreshCap

\* a receive is possible while the buffer is not empty
ChanCanRecv(n) == n > 0

ChanRecvKeep(n) == n

\* `case <-c.canRefresh`: the receive removes one token from the buffer
ChanRecv(n) == n - 1

\* `c.canRefresh <- true`: the send adds one token to the buffer
ChanSend(n) == n + 1

PutBackLost(n) == n

\* tryRefresh after refresh(): c.canRefresh <- true
PutBack(n) == ChanSend(n)

\* AppendErrGroup(g, f): g.Go(f), the goroutine running f is started
AppendErrGroup(g, s) == [g EXCEPT !.st[s] = "running"]

\* a goroutine of the group returns r: the group keeps the first error
GoReturn(g, s, r) ==
    [g EXCEPT !.st[s] = "done", !.err = IF @ = "nil" THEN r ELSE @]

Started(g) == \E s \in DOMAIN g.st : g.st[s] # "none"

Finished(g) == \A s \in DOMAIN g.st : g.st[s] = "done"

AheadWaitedOne(g) == \E s \in DOMAIN g.st : g.st[s] = "done"

\* egRunAhead.Wait() returns once every goroutine of the group has returned
AheadWaited(g) == Finished(g)

(***************************************************************************)
(* ID cache: Start                                                         *)
(***************************************************************************)
\* Start: c.Init; c.canRefresh <- true; then the call of tryRefresh
Inject(p) ==
    /\ cpc[p] = "start"
    /\ ChanCanSend(canRefresh)
    /\ canRefresh' = ChanSend(canRefresh)
    /\ cpc' = [cpc EXCEPT ![p] = "select"]
    /\ UNCHANGED <<egRunAhead, eg, refreshErr, ctxDone>>
    /\ UNCHANGED exceptCache

TickerAlways(p, t) ==
    /\ cpc[p] = "returned"
    /\ cpc' = [cpc EXCEPT ![p] = IF refreshErr[p] = "err" THEN "failed" ELSE "started",
                          ![t] = "wait"]
    /\ refreshErr' = [refreshErr EXCEPT ![p] = "none"]
    /\ UNCHANGED <<canRefresh, egRunAhead, eg, ctxDone>>
    /\ UNCHANGED exceptCache

\* Start after its tryRefresh returned: an error is returned to the caller,
\* otherwise the ticker goroutine t is started
TickerUnlessError(p, t) ==
    /\ cpc[p] = "returned"
    /\ IF refreshErr[p] = "err"
       THEN cpc' = [cpc EXCEPT ![p] = "failed"]
       ELSE cpc' = [cpc EXCEPT ![p] = "started", ![t] = "wait"]
    /\ refreshErr' = [refreshErr EXCEPT ![p] = "none"]
    /\ UNCHANGED <<canRefresh, egRunAhead, eg, ctxDone>>
    /\ UNCHANGED exceptCache

\* the ticker goroutine: case <-ticker.C: c.tryRefresh()
Tick(t) ==
    /\ cpc[t] = "wait"
    /\ cpc' = [cpc EXCEPT ![t] = "select"]
    /\ UNCHANGED <<canRefresh, egRunAhead, eg, refreshErr, ctxDone>>
    /\ UNCHANGED exceptCache

\* the ticker goroutine: case <-ctx.Done(): return
CtxDone(t) ==
    /\ cpc[t] = "wait"
    /\ ctxDone
    /\ cpc' = [cpc EXCEPT ![t] = "exit"]
    /\ UNCHANGED <<canRefresh, egRunAhead, eg, refreshErr, ctxDone>>
    /\ UNCHANGED exceptCache

\* the ticker goroutine: tryRefresh returned, its error is dropped
ErrorDropped(t) ==
    /\ cpc[t] = "returned"
    /\ cpc' = [cpc EXCEPT ![t] = "wait"]
    /\ refreshErr' = [refreshErr EXCEPT ![t] = "none"]
    /\ UNCHANGED <<canRefresh, egRunAhead, eg, ctxDone>>
    /\ UNCHANGED exceptCache

\* the first invocation of Start and its ticker goroutine
StartInject == Inject(StartCaller)

StartReturn == TickerUnlessError(StartCaller, TickerCaller)

TickerTick == Tick(TickerCaller)

TickerStop == CtxDone(TickerCaller)

TickerReturn == ErrorDropped(TickerCaller)

\* Start invoked again on the singleton, and the ticker goroutine of that
\* invocation
AgainInject == Inject(AgainCaller)

AgainReturn == TickerUnlessError(AgainCaller, AgainTicker)

AgainTick == Tick(AgainTicker)

AgainStop == CtxDone(AgainTicker)

AgainTickerReturn == ErrorDropped(AgainTicker)

\* the owner of the context cancels it
CancelCtx ==
    /\ ~ctxDone
    /\ ctxDone' = TRUE
    /\ UNCHANGED <<canRefresh, cpc, egRunAhead, eg, refreshErr>>
    /\ UNCHANGED exceptCache

\* any other caller of tryRefresh
OtherCall(p) ==
    /\ p \in OtherCallers
    /\ cpc[p] = "idle"
    /\ cpc' = [cpc EXCEPT ![p] = "select"]
    /\ UNCHANGED <<canRefresh, egRunAhead, eg, refreshErr, ctxDone>>
    /\ UNCHANGED exceptCache

OtherReturn(p) ==
    /\ p \in OtherCallers
    /\ cpc[p] = "returned"
    /\ cpc' = [cpc EXCEPT ![p] = "idle"]
    /\ refreshErr' = [refreshErr EXCEPT ![p] = "none"]
    /\ UNCHANGED <<canRefresh, egRunAhead, eg, ctxDone>>
    /\ UNCHANGED exceptCache

(***************************************************************************)
(* ID cache: tryRefresh and refresh                                        *)
(***************************************************************************)
\* select, case <-c.canRefresh: the token is taken and refresh() begins:
\* egRunAhead gets the MetricName and the Label refresh
TakeToken(p) ==
    /\ cpc[p] = "select"
    /\ ChanCanRecv(canRefresh)
    /\ canRefresh' = ChanRecv(canRefresh)
    /\ cpc' = [cpc EXCEPT ![p] = "ahead"]
    /\ egRunAhead' = [egRunAhead EXCEPT ![p] =
           AppendErrGroup(AppendErrGroup(@, "MetricName"), "Label")]
    /\ UNCHANGED <<eg, refreshErr, ctxDone>>
    /\ UNCHANGED exceptCache

\* select, default: no token in the channel, time.Sleep(time.Second)
NoToken(p) ==
    /\ cpc[p] = "select"
    /\ ~ChanCanRecv(canRefresh)
    /\ cpc' = [cpc EXCEPT ![p] = "sleep"]
    /\ UNCHANGED <<canRefresh, egRunAhead, eg, refreshErr, ctxDone>>
    /\ UNCHANGED exceptCache

\* the sleep is over, the loop selects again
Wake(p) ==
    /\ cpc[p] = "sleep"
    /\ cpc' = [cpc EXCEPT ![p] = "select"]
    /\ UNCHANGED <<canRefresh, egRunAhead, eg, refreshErr, ctxDone>>
    /\ UNCHANGED exceptCache

\* one sub-cache refresh of egRunAhead returns, with or without an error
AheadRefreshDone(p, s, r) ==
    /\ egRunAhead[p].st[s] = "running"
    /\ egRunAhead' = [egRunAhead EXCEPT ![p] = GoReturn(@, s, r)]
    /\ UNCHANGED <<canRefresh, cpc, eg, refreshErr, ctxDone>>
    /\ UNCHANGED exceptCache

\* one sub-cache refresh of eg returns, with or without an error
LaterRefreshDone(p, s, r) ==
    /\ eg[p].st[s] = "running"
    /\ eg' = [eg EXCEPT ![p] = GoReturn(@, s, r)]
    /\ UNCHANGED <<canRefresh, cpc, egRunAhead, refreshErr, ctxDone>>
    /\ UNCHANGED exceptCache

StartLater(g) ==
    AppendErrGroup(AppendErrGroup(AppendErrGroup(AppendErrGroup(AppendErrGroup(
        AppendErrGroup(g, "LabelName"), "LabelValue"), "MetricAndAPPLabelLayout"),
        "MetricLabel"), "Target"), "MetricTarget")

WaitAheadAbort(p) ==
    /\ cpc[p] = "ahead"
    /\ AheadWaited(egRunAhead[p])
    /\ IF egRunAhead[p].err = "err"
       THEN /\ cpc' = [cpc EXCEPT ![p] = "put"]
            /\ refreshErr' = [refreshErr EXCEPT ![p] = "err"]
            /\ eg' = eg
       ELSE /\ cpc' = [cpc EXCEPT ![p] = "eg"]
            /\ eg' = [eg EXCEPT ![p] = StartLater(@)]
            /\ refreshErr' = refreshErr
    /\ UNCHANGED <<canRefresh, egRunAhead, ctxDone>>
    /\ UNCHANGED exceptCache

\* egRunAhead.Wait() returns, its error is dropped; eg gets the other six
WaitAhead(p) ==
    /\ cpc[p] = "ahead"
    /\ AheadWaited(egRunAhead[p])
    /\ cpc' = [cpc EXCEPT ![p] = "eg"]
    /\ eg' = [eg EXCEPT ![p] = StartLater(@)]
    /\ UNCHANGED <<canRefresh, egRunAhead, refreshErr, ctxDone>>
    /\ UNCHANGED exceptCache

\* err := eg.Wait(); refresh() returns err to tryRefresh
WaitEg(p) ==
    /\ cpc[p] = "eg"
    /\ Finished(eg[p])
    /\ cpc' = [cpc EXCEPT ![p] = "put"]
    /\ refreshErr' = [refreshErr EXCEPT ![p] = eg[p].err]
    /\ UNCHANGED <<canRefresh, egRunAhead, eg, ctxDone>>
    /\ UNCHANGED exceptCache

\* c.canRefresh <- true; break LOOP; return
PutToken(p) ==
    /\ cpc[p] = "put"
    /\ ChanCanSend(canRefresh)
    /\ canRefresh' = PutBack(canRefresh)
    /\ cpc' = [cpc EXCEPT ![p] = "returned"]
    /\ egRunAhead' = [egRunAhead EXCEPT ![p] = NewGroup(AheadCaches)]
    /\ eg' = [eg EXCEPT ![p] = NewGroup(LaterCaches)]
    /\ UNCHANGED <<refreshErr, ctxDone>>
    /\ UNCHANGED exceptCache

CacheNext ==
    \/ StartInject
    \/ StartReturn
    \/ TickerTick
    \/ TickerStop
    \/ TickerReturn
    \/ CancelCtx
    \/ \E p \in OtherCallers : OtherCall(p)
    \/ \E p \in OtherCallers : OtherReturn(p)
    \/ \E p \in Callers : TakeToken(p)
    \/ \E p \in Callers : NoToken(p)
    \/ \E p \in Callers : Wake(p)
    \/ \E p \in Callers, s \in AheadCaches, r \in {"nil", "err"} : AheadRefreshDone(p, s, r)
    \/ \E p \in Callers, s \in LaterCaches, r \in {"nil", "err"} : LaterRefreshDone(p, s, r)
    \/ \E p \in Callers : WaitAhead(p)
    \/ \E p \in Callers : WaitEg(p)
    \/ \E p \in Callers : PutToken(p)

\* two invocations of Start, their ticker goroutines and the other callers of
\* tryRefresh; no sub-cache refresh fails and the context is not cancelled
AgainNext ==
    \/ StartInject
    \/ StartReturn
    \/ TickerTick
    \/ TickerReturn
    \/ AgainInject
    \/ AgainReturn
    \/ AgainTick
    \/ AgainTickerReturn
    \/ \E p \in OtherCallers : OtherCall(p)
    \/ \E p \in OtherCallers : OtherReturn(p)
    \/ \E p \in Callers : TakeToken(p)
    \/ \E p \in Callers : NoToken(p)
    \/ \E p \in Callers : Wake(p)
    \/ \E p \in Callers, s \in AheadCaches : AheadRefreshDone(p, s, "nil")
    \/ \E p \in Callers, s \in LaterCaches : LaterRefreshDone(p, s, "nil")
    \/ \E p \in Callers : WaitAhead(p)
    \/ \E p \in Callers : WaitEg(p)
    \/ \E p \in Callers : PutToken(p)

(***************************************************************************)
(* Debug snapshot of the ID cache: GetDebugCache                           *)
(***************************************************************************)
\* controller.PrometheusCacheType, and a value the switch does not know
PrometheusCacheTypes ==
    {"ALL", "METRIC_NAME", "LABEL_NAME", "LABEL_VALUE",
     "METRIC_AND_APP_LABEL_LAYOUT", "TARGET", "LABEL", "METRIC_LABEL",
     "METRIC_TARGET", "UNSUPPORTED"}

\* one iteration of a getter: the sub-cache that owns the structure, the
\* structure, and the way it is iterated: Range of a concurrent map, Iterator
\* of a concurrent set, or a range statement over the Go map itself
Iteration(cache, field, how) == [cache |-> cache, field |-> field, how |-> how]

NoIteration == Iteration("none", "none", "none")

\* the iterations of each getter closure, in the order of its statements;
\* labelCache of MetricLabel is the Label sub-cache handed to newMetricLabel
IterationsOf(getter) ==
    CASE getter = "getMetricName" ->
           <<Iteration("MetricName", "nameToID", "Range")>>
      [] getter = "getLabelName" ->
           <<Iteration("LabelName", "nameToID", "Range")>>
      [] getter = "getLabelValue" ->
           <<Iteration("LabelValue", "valueToID", "Range")>>
      [] getter = "getMetricAndAppLabelLayout" ->
           <<Iteration("MetricAndAPPLabelLayout", "layoutKeyToIndex", "Range")>>
      [] getter = "getTarget" ->
           <<Iteration("Target", "keyToTargetID", "Range"),
             Iteration("Target", "targetLabelKeys", "Iterator")>>
      [] getter = "getLabel" ->
           <<Iteration("Label", "idToKey", "Range"),
             Iteration("Label", "keys", "Iterator")>>
      [] getter = "getMetricLabel" ->
           <<Iteration("Label", "keys", "Iterator"),
             Iteration("Label", "idToKey", "Range"),
             Iteration("MetricLabel", "metricNameToLabelIDs", "range"),
             Iteration("MetricLabel", "metricLabelDetailKeys", "Iterator")>>
      [] getter = "getMetricTarget" ->
           <<Iteration("MetricTarget", "metricTargetKeys", "Iterator"),
             Iteration("MetricTarget", "targetIDToMetricIDs", "range")>>

\* switch t: the getters a cache type runs, none for an unsupported type
GettersOf(t) ==
    CASE t = "ALL" -> <<"getMetricName", "getLabelName", "getLabelValue",
                        "getMetricAndAppLabelLayout", "getTarget", "getLabel",
                        "getMetricLabel", "getMetricTarget">>
      [] t = "METRIC_NAME" -> <<"getMetricName">>
      [] t = "LABEL_NAME" -> <<"getLabelName">>
      [] t = "LABEL_VALUE" -> <<"getLabelValue">>
      [] t = "METRIC_AND_APP_LABEL_LAYOUT" -> <<"getMetricAndAppLabelLayout">>
      [] t = "TARGET" -> <<"getTarget">>
      [] t = "LABEL" -> <<"getLabel">>
      [] t = "METRIC_LABEL" -> <<"getMetricLabel">>
      [] t = "METRIC_TARGET" -> <<"getMetricTarget">>
      [] OTHER -> <<>>

RECURSIVE Flatten(_)
Flatten(seqs) ==
    IF seqs = <<>> THEN <<>> ELSE Head(seqs) \o Flatten(Tail(seqs))

IterationsOfType(t) ==
    Flatten([i \in 1..Len(GettersOf(t)) |-> IterationsOf(GettersOf(t)[i])])

\* the refresh goroutine of a sub-cache, started by some refresh() and not
\* yet returned, writes the structures of that sub-cache
RefreshWrites(cache) ==
    \E p \in Callers :
        \/ cache \in AheadCaches /\ egRunAhead[p].st[cache] = "running"
        \/ cache \in LaterCaches /\ eg[p].st[cache] = "running"

\* a Go map ranged over while another goroutine writes it
RacingIteration ==
    /\ iterating.how = "range"
    /\ RefreshWrites(iterating.cache)

\* nobody has asked for a snapshot
DebugInit ==
    /\ dpc = "idle"
    /\ pending = <<>>
    /\ iterating = NoIteration
    /\ debugOut = "none"

\* GetDebugCache(t) up to the switch: an unsupported type is logged and nil
\* is returned, any other type runs its getters
GetDebugCache(t) ==
    /\ dpc = "idle"
    /\ IF GettersOf(t) = <<>>
       THEN /\ dpc' = "returned"
            /\ debugOut' = "nil"
            /\ UNCHANGED <<pending, iterating>>
       ELSE /\ dpc' = "reading"
            /\ pending' = IterationsOfType(t)
            /\ debugOut' = "none"
            /\ UNCHANGED iterating
    /\ UNCHANGED <<cvars, exceptDebug>>

\* the next iteration of the getters starts, the one before it has ended
Iterate ==
    /\ dpc = "reading"
    /\ pending # <<>>
    /\ iterating' = Head(pending)
    /\ pending' = Tail(pending)
    /\ UNCHANGED <<dpc, debugOut>>
    /\ UNCHANGED <<cvars, exceptDebug>>

\* the Go runtime may find the map written during the range statement and
\* throw "concurrent map iteration and map write", which ends the process
FatalError ==
    /\ dpc = "reading"
    /\ RacingIteration
    /\ dpc' = "crashed"
    /\ debugOut' = "fatal"
    /\ UNCHANGED <<pending, iterating>>
    /\ UNCHANGED <<cvars, exceptDebug>>

\* json.MarshalIndent(content): the bytes are returned
Marshal ==
    /\ dpc = "reading"
    /\ pending = <<>>
    /\ iterating' = NoIteration
    /\ dpc' = "returned"
    /\ debugOut' = "bytes"
    /\ UNCHANGED pending
    /\ UNCHANGED <<cvars, exceptDebug>>

\* the caller has the answer and may ask again
DebugDone ==
    /\ dpc = "returned"
    /\ dpc' = "idle"
    /\ debugOut' = "none"
    /\ UNCHANGED <<pending, iterating>>
    /\ UNCHANGED <<cvars, exceptDebug>>

DebugNext ==
    \/ \E t \in PrometheusCacheTypes : GetDebugCache(t)
    \/ Iterate
    \/ FatalError
    \/ Marshal
    \/ DebugDone

\* the debug endpoint does not take part
DebugAtRest == DebugInit

(***************************************************************************)
(* Querier statsd counter: WriteCk, WriteApi, GetCounter                   *)
(***************************************************************************)
\* the goroutines `go func()` of WriteCk and WriteApi alive at a time
StatWriters == 1..2

\* &ClickhouseCounter{}: every field is zero (QueryTime and ApiTime are
\* fields of the argument qc only, c.ck never gets them)
NewClickhouseCounter ==
    [QueryCount |-> 0, ResponseSize |-> 0, RowCount |-> 0, ColumnCount |-> 0,
     QueryTimeSum |-> 0, QueryTimeAvg |-> 0, QueryTimeMax |-> 0,
     ApiTimeSum |-> 0, ApiTimeAvg |-> 0, ApiTimeMax |-> 0, ApiCount |-> 0]

\* the argument of WriteCk and WriteApi: one row of one column, one byte,
\* and the time the query or the API call took
Measured(time) ==
    [ResponseSize |-> 1, RowCount |-> 1, ColumnCount |-> 1, QueryTime |-> time,
     ApiTime |-> time]

\* a goroutine of WriteCk ("ck") or WriteApi ("api"): its position, the
\* statement it executes next, its argument, and whether GetCounter replaced
\* c.ck after the first statement of the goroutine
Goroutine(pc, kind, at, qc, moved) ==
    [pc |-> pc, kind |-> kind, at |-> at, qc |-> qc, moved |-> moved]

NoGoroutine == Goroutine("none", "none", 0, Measured(0), FALSE)

\* the statements between Lock and the deferred Unlock, in their order
StatementsOf(kind) ==
    IF kind = "ck"
    THEN <<"ResponseSize", "RowCount", "ColumnCount", "QueryCount", "QueryTimeSum",
           "QueryTimeAvg", "QueryTimeMax">>
    ELSE <<"ApiCount", "ApiTimeSum", "ApiTimeAvg", "ApiTimeMax">>

\* c.ck.QueryTimeSum / c.ck.QueryCount: the division of two uint64
Average(sum, count) == sum \div count

\* one statement on the counter c.ck points to when it is executed
Statement(c, name, qc) ==
    CASE name = "ResponseSize" -> [c EXCEPT !.ResponseSize = @ + qc.ResponseSize]
      [] name = "RowCount" -> [c EXCEPT !.RowCount = @ + qc.RowCount]
      [] name = "ColumnCount" ->
           [c EXCEPT !.ColumnCount = @ + qc.ColumnCount * qc.RowCount]
      [] name = "QueryCount" -> [c EXCEPT !.QueryCount = @ + 1]
      [] name = "QueryTimeSum" -> [c EXCEPT !.QueryTimeSum = @ + qc.QueryTime]
      [] name = "QueryTimeAvg" ->
           [c EXCEPT !.QueryTimeAvg = Average(c.QueryTimeSum, c.QueryCount)]
      [] name = "QueryTimeMax" ->
           IF qc.QueryTime > c.QueryTimeMax
           THEN [c EXCEPT !.QueryTimeMax = qc.QueryTime] ELSE c
      [] name = "ApiCount" -> [c EXCEPT !.ApiCount = @ + 1]
      [] name = "ApiTimeSum" -> [c EXCEPT !.ApiTimeSum = @ + qc.ApiTime]
      [] name = "ApiTimeAvg" ->
           [c EXCEPT !.ApiTimeAvg = Average(c.ApiTimeSum, c.ApiCount)]
      [] name = "ApiTimeMax" ->
           IF qc.ApiTime > c.ApiTimeMax
           THEN [c EXCEPT !.ApiTimeMax = qc.ApiTime] ELSE c

\* the statement divides by a count that is zero
DividesByZero(c, name) ==
    \/ name = "QueryTimeAvg" /\ c.QueryCount = 0
    \/ name = "ApiTimeAvg" /\ c.ApiCount = 0

\* NewCounter
StatInit ==
    /\ ck = NewClickhouseCounter
    /\ handed = NewClickhouseCounter
    /\ writeCkM = NoOne
    /\ sw = [w \in StatWriters |-> NoGoroutine]

\* WriteCk(qc) or WriteApi(qc): go func() { ... }()
Write(w, kind, time) ==
    /\ sw[w].pc = "none"
    /\ ck.QueryCount < MaxStat
    /\ ck.ApiCount < MaxStat
    /\ sw' = [sw EXCEPT ![w] = Goroutine("lock", kind, 1, Measured(time), FALSE)]
    /\ UNCHANGED <<ck, handed, writeCkM>>
    /\ UNCHANGED exceptStat

WriteCk(w, time) == Write(w, "ck", time)

WriteApi(w, time) == Write(w, "api", time)

\* c.writeCkM.Lock()
LockCkM(w) ==
    /\ sw[w].pc = "lock"
    /\ writeCkM = NoOne
    /\ writeCkM' = w
    /\ sw' = [sw EXCEPT ![w].pc = "locked"]
    /\ UNCHANGED <<ck, handed>>
    /\ UNCHANGED exceptStat

\* the next statement of the goroutine on c.ck; a division by zero panics,
\* the deferred Unlock runs after the last statement and after a panic
RunStatement(w) ==
    LET g == sw[w]
        name == StatementsOf(g.kind)[g.at]
    IN  /\ g.pc = "locked"
        /\ writeCkM = w
        /\ IF DividesByZero(ck, name)
           THEN /\ sw' = [sw EXCEPT ![w].pc = "panic"]
                /\ writeCkM' = NoOne
                /\ UNCHANGED ck
           ELSE /\ ck' = Statement(ck, name, g.qc)
                /\ IF g.at = Len(StatementsOf(g.kind))
                   THEN /\ sw' = [sw EXCEPT ![w] = NoGoroutine]
                        /\ writeCkM' = NoOne
                   ELSE /\ sw' = [sw EXCEPT ![w].at = @ + 1]
                        /\ UNCHANGED writeCkM
        /\ UNCHANGED handed
        /\ UNCHANGED exceptStat

\* GetCounter: counter, c.ck = c.ck, &ClickhouseCounter{}, without the mutex
CounterGetCounter ==
    /\ handed' = ck
    /\ ck' = NewClickhouseCounter
    /\ sw' = [w \in StatWriters |->
                 IF sw[w].pc = "locked" /\ sw[w].at > 1
                 THEN [sw[w] EXCEPT !.moved = TRUE] ELSE sw[w]]
    /\ UNCHANGED writeCkM
    /\ UNCHANGED exceptStat

StatNext ==
    \/ \E w \in StatWriters, time \in 1..MaxTime : WriteCk(w, time)
    \/ \E w \in StatWriters, time \in 1..MaxTime : WriteApi(w, time)
    \/ \E w \in StatWriters : LockCkM(w)
    \/ \E w \in StatWriters : RunStatement(w)
    \/ CounterGetCounter

\* the statsd counter does not take part
StatAtRest == StatInit

(***************************************************************************)
(* Resource cleaner                                                        *)
(***************************************************************************)
\* the tables read with getIDs only, and the tables whose rows are the
\* reference to one row of such a table (a row is written as the id it
\* refers to)
ParentTables ==
    {"network", "vrouter", "security_group", "pod_ingress", "pod_service", "pod_node"}

ParentOf ==
    ("subnet" :> "network" @@ "routing_table" :> "vrouter" @@
     "security_group_rule" :> "security_group" @@
     "vm_security_group" :> "security_group" @@
     "pod_ingress_rule" :> "pod_ingress" @@
     "pod_ingress_rule_backend" :> "pod_ingress" @@
     "pod_service_port" :> "pod_service" @@ "pod_group_port" :> "pod_service" @@
     "vm_pod_node_connection" :> "pod_node")

ChildTables == DOMAIN ParentOf

\* a pod on a pod node, a vinterface of a device, and the tables of the
\* cleaner: ids and refs as above, the pods, the vinterfaces, the rows of
\* lan_ip and wan_ip by the vinterface they refer to, and the resource types
\* that have soft-deleted rows older than the retention time
Pod(id, podNodeID) == [id |-> id, pod_node_id |-> podNodeID]

VInterface(id, deviceType, deviceID) ==
    [id |-> id, devicetype |-> deviceType, deviceid |-> deviceID]

Tables(ids, refs, pods, vifs, lanIPs, wanIPs, expired) ==
    [ids |-> ids, refs |-> refs, pods |-> pods, vifs |-> vifs, lanIPs |-> lanIPs,
     wanIPs |-> wanIPs, expired |-> expired]

IDsOf(rows) == {r.id : r \in rows}

\* Where("... NOT IN ?", ids).Find(&rows) on the rows given by their reference
NotIn(refs, ids) == {r \in refs : r \notin ids}

\* if len(ids) != 0 { Find the rows NOT IN ids; Delete them }
DeleteNotIn(refs, ids) == IF ids # {} THEN refs \ NotIn(refs, ids) ELSE refs

\* the same for the vinterfaces of one device type
DeleteVifsNotIn(vifs, deviceType, ids) ==
    IF ids # {}
    THEN {r \in vifs : ~(r.devicetype = deviceType /\ r.deviceid \notin ids)}
    ELSE vifs

\* a cleaner that reads one parent table and deletes from the tables given
CleanRefs(d, parent, children) ==
    [d EXCEPT !.refs = [c \in ChildTables |->
                          IF c \in children
                          THEN DeleteNotIn(d.refs[c], d.ids[parent]) ELSE d.refs[c]]]

cleanNetworkDirty(d) == CleanRefs(d, "network", {"subnet"})

cleanVRouterDirty(d) == CleanRefs(d, "vrouter", {"routing_table"})

cleanSecurityGroupDirty(d) ==
    CleanRefs(d, "security_group", {"security_group_rule", "vm_security_group"})

cleanPodIngressDirty(d) ==
    CleanRefs(d, "pod_ingress", {"pod_ingress_rule", "pod_ingress_rule_backend"})

cleanPodServiceDirty(d) ==
    [CleanRefs(d, "pod_service", {"pod_service_port", "pod_group_port"})
        EXCEPT !.vifs = DeleteVifsNotIn(d.vifs, "pod_service", d.ids["pod_service"])]

cleanPodNodeDirty(d) ==
    [CleanRefs(d, "pod_node", {"vm_pod_node_connection"})
        EXCEPT !.vifs = DeleteVifsNotIn(d.vifs, "pod_node", d.ids["pod_node"]),
               !.pods = IF d.ids["pod_node"] # {}
                        THEN {r \in d.pods : r.pod_node_id \in d.ids["pod_node"]}
                        ELSE d.pods]

cleanPodDirty(d) ==
    [d EXCEPT !.vifs = DeleteVifsNotIn(d.vifs, "pod", IDsOf(d.pods))]

cleanVInterfaceDirty(d) ==
    [d EXCEPT !.lanIPs = DeleteNotIn(d.lanIPs, IDsOf(d.vifs)),
              !.wanIPs = DeleteNotIn(d.wanIPs, IDsOf(d.vifs))]

\* the cleaners in the order cleanDirtyData calls them
DirtyCleaners == 8

cleanDirtyData(k, d) ==
    CASE k = 1 -> cleanNetworkDirty(d)
      [] k = 2 -> cleanVRouterDirty(d)
      [] k = 3 -> cleanSecurityGroupDirty(d)
      [] k = 4 -> cleanPodIngressDirty(d)
      [] k = 5 -> cleanPodServiceDirty(d)
      [] k = 6 -> cleanPodNodeDirty(d)
      [] k = 7 -> cleanPodDirty(d)
      [] k = 8 -> cleanVInterfaceDirty(d)

\* forceDelete of every resource type: the soft-deleted rows older than the
\* retention time are gone for good
cleanDeletedData(d) == [d EXCEPT !.expired = {}]

\* a position: "new", "dirty" with the cleaner to call next, "started" for
\* the caller of Start; "unborn", "wait", "deleted", "dirty" for a goroutine
At(at, k) == [at |-> at, k |-> k]

CleanerTasks == {"deleted", "dirty"}

\* the tables the cleaner may find
CleanerTables ==
    { Tables([t \in ParentTables |->
                 IF t = "pod_service" THEN ps ELSE IF t = "pod_node" THEN pn ELSE ids],
             [c \in ChildTables |-> refs],
             pods, {v1[i] : i \in 1..Len(v1)} \cup {v2[i] : i \in 1..Len(v2)},
             ips, ips, {"Network", "Pod"}) :
        ids \in SUBSET {1}, ps \in SUBSET {1}, pn \in SUBSET {1},
        refs \in SUBSET {1, 2},
        pods \in {{}, {Pod(1, 1)}, {Pod(1, 2)}},
        v1 \in {<<>>} \cup { <<VInterface(1, t, i)>> :
                                t \in {"pod", "pod_node", "pod_service"}, i \in {1, 2} },
        v2 \in {<<>>, <<VInterface(2, "pod", 1)>>},
        ips \in SUBSET {1, 2} }

\* NewResourceCleaner
CleanerInit ==
    /\ mysqlDb \in CleanerTables
    /\ lpc = At("new", 0)
    /\ tpc = [t \in CleanerTasks |-> At("unborn", 0)]
    /\ cancelled = FALSE

\* Start up to the first cleaner of cleanDirtyData: timedCleanDeletedData
\* runs cleanDeletedData and starts its goroutine
timedCleanDeletedData ==
    /\ lpc = At("new", 0)
    /\ mysqlDb' = cleanDeletedData(mysqlDb)
    /\ tpc' = [tpc EXCEPT !["deleted"] = At("wait", 0)]
    /\ lpc' = At("dirty", 1)
    /\ UNCHANGED cancelled
    /\ UNCHANGED exceptCleaner

\* timedCleanDirtyData in Start: the next cleaner of cleanDirtyData; after
\* the last one the goroutine is started and Start returns
StartCleanDirty ==
    /\ lpc.at = "dirty"
    /\ mysqlDb' = cleanDirtyData(lpc.k, mysqlDb)
    /\ IF lpc.k < DirtyCleaners
       THEN /\ lpc' = At("dirty", lpc.k + 1)
            /\ UNCHANGED tpc
       ELSE /\ lpc' = At("started", 0)
            /\ tpc' = [tpc EXCEPT !["dirty"] = At("wait", 0)]
    /\ UNCHANGED cancelled
    /\ UNCHANGED exceptCleaner

\* for range time.Tick(...): a tick arrives and the run begins; the loop reads
\* only the channel of the ticker
TickerFires(t) ==
    /\ tpc[t].at = "wait"
    /\ tpc' = [tpc EXCEPT ![t] = IF t = "dirty" THEN At("dirty", 1) ELSE At("deleted", 0)]
    /\ UNCHANGED <<mysqlDb, lpc, cancelled>>
    /\ UNCHANGED exceptCleaner

\* the goroutine of timedCleanDeletedData: c.cleanDeletedData(retentionInterval)
TickCleanDeleted ==
    /\ tpc["deleted"].at = "deleted"
    /\ mysqlDb' = cleanDeletedData(mysqlDb)
    /\ tpc' = [tpc EXCEPT !["deleted"] = At("wait", 0)]
    /\ UNCHANGED <<lpc, cancelled>>
    /\ UNCHANGED exceptCleaner

\* the goroutine of timedCleanDirtyData: the next cleaner of c.cleanDirtyData()
TickCleanDirty ==
    /\ tpc["dirty"].at = "dirty"
    /\ mysqlDb' = cleanDirtyData(tpc["dirty"].k, mysqlDb)
    /\ tpc' = [tpc EXCEPT !["dirty"] = IF @.k < DirtyCleaners
                                       THEN At("dirty", @.k + 1) ELSE At("wait", 0)]
    /\ UNCHANGED <<lpc, cancelled>>
    /\ UNCHANGED exceptCleaner

\* Stop: c.cancel()
Stop ==
    /\ lpc.at = "started"
    /\ ~cancelled
    /\ cancelled' = TRUE
    /\ UNCHANGED <<mysqlDb, lpc, tpc>>
    /\ UNCHANGED exceptCleaner

CleanerNext ==
    \/ timedCleanDeletedData
    \/ StartCleanDirty
    \/ \E t \in CleanerTasks : TickerFires(t)
    \/ TickCleanDeleted
    \/ TickCleanDirty
    \/ Stop

\* no cleaner is built
CleanerAtRest ==
    /\ mysqlDb = Tables([t \in ParentTables |-> {}], [c \in ChildTables |-> {}],
                         {}, {}, {}, {}, {})
    /\ lpc = At("new", 0)
    /\ tpc = [t \in CleanerTasks |-> At("unborn", 0)]
    /\ cancelled = FALSE

(***************************************************************************)
(* CheckJSONParam                                                          *)
(***************************************************************************)
\* a Go type: its kind, its element type (Ptr, Slice, Array, Map) and its
\* fields with their json tag (Struct); "" is the tag of a field without one
GoType(kind, elem, fields) == [kind |-> kind, elem |-> elem, fields |-> fields]

Field(tag, type) == [tag |-> tag, type |-> type]

\* the types of the parameters:
\*   type Outer  struct { A string `json:"a"`; In []*Inner `json:"in"`
\*                        U Hidden; O string `json:"o,omitempty"` }
\*   type Inner  struct { Y string `json:"y"` }
\*   type Hidden struct { H string `json:"h"` }
\*   type Tree   struct { A string `json:"a"`; In []*Tree `json:"in"` }
GoTypes ==
    ("string" :> GoType("string", "", <<>>) @@
     "Outer" :> GoType("struct", "", <<Field("a", "string"), Field("in", "[]*Inner"),
                                        Field("", "Hidden"),
                                        Field("o,omitempty", "string")>>) @@
     "*Outer" :> GoType("ptr", "Outer", <<>>) @@
     "Inner" :> GoType("struct", "", <<Field("y", "string")>>) @@
     "*Inner" :> GoType("ptr", "Inner", <<>>) @@
     "[]*Inner" :> GoType("slice", "*Inner", <<>>) @@
     "Hidden" :> GoType("struct", "", <<Field("h", "string")>>) @@
     "Tree" :> GoType("struct", "", <<Field("a", "string"), Field("in", "[]*Tree")>>) @@
     "*Tree" :> GoType("ptr", "Tree", <<>>) @@
     "[]*Tree" :> GoType("slice", "*Tree", <<>>))

\* the types of the values CheckJSONParam is called with
ParamTypes == {"Outer", "*Outer", "Tree", "string"}

\* the frames of getAllJSONTags the stack of a goroutine has room for
MaxStack == 4

\* a JSON text by its structure: an object with its members in the order
\* written, an array with its items (members with key ""), a string, null,
\* or a text that is not JSON
Text(kind, members) == [kind |-> kind, members |-> members]

Member(key, value) == [key |-> key, value |-> value]

JSONKeys == {"a", "in", "y", "h"}

SeqsUpTo(n, S) == UNION {[1..k -> S] : k \in 0..n}

Scalars == {Text("string", <<>>), Text("null", <<>>)}

Nested ==
    Scalars
        \cup {Text("object", m) :
                 m \in SeqsUpTo(1, {Member(k, t) : k \in JSONKeys, t \in Scalars})}
        \cup {Text("array", m) : m \in SeqsUpTo(1, {Member("", t) : t \in Scalars})}

Documents ==
    Scalars \cup {Text("invalid", <<>>)}
        \cup {Text("object", m) :
                 m \in SeqsUpTo(2, {Member(k, t) : k \in JSONKeys, t \in Nested})}
        \cup {Text("array", m) : m \in SeqsUpTo(1, {Member("", t) : t \in Nested})}

\* an error value: "nil", "pending" while CheckJSONParam has not returned,
\* "rogue field(key)", "not a valid JSON string", and the fatal error of the
\* runtime that ends the process
Error(kind, key) == [kind |-> kind, key |-> key]

\* the result of getAllJSONTags: the tags added to tagMap, and whether the
\* recursion has used up the stack
Tags(tags, overflow) == [tags |-> tags, overflow |-> overflow]

RECURSIVE getAllJSONTags(_, _)
getAllJSONTags(typ, depth) ==
    IF depth > MaxStack THEN Tags({}, TRUE)
    ELSE LET t == IF GoTypes[typ].kind = "ptr" THEN GoTypes[typ].elem ELSE typ
             fields == GoTypes[t].fields
             Of(f) ==
                 IF f.tag = "" THEN Tags({}, FALSE)
                 ELSE LET sub ==
                              CASE GoTypes[f.type].kind \in {"struct", "ptr"} ->
                                       getAllJSONTags(f.type, depth + 1)
                                [] GoTypes[f.type].kind \in {"array", "slice", "map"} ->
                                       getAllJSONTags(GoTypes[f.type].elem, depth + 1)
                                [] OTHER -> Tags({}, FALSE)
                      IN  Tags({f.tag} \cup sub.tags, sub.overflow)
         IN  IF GoTypes[t].kind # "struct" THEN Tags({}, FALSE)
             ELSE Tags(UNION {Of(fields[i]).tags : i \in 1..Len(fields)},
                       \E i \in 1..Len(fields) : Of(fields[i]).overflow)

GetJsonTags(typ) == getAllJSONTags(typ, 1)

\* json.Unmarshal into interface{}: an object becomes a map in which the
\* last member with a key is the one that stays, an array a slice
RECURSIVE Unmarshal(_)
Unmarshal(text) ==
    CASE text.kind = "object" ->
             LET m == text.members
                 Last(k) == CHOOSE i \in 1..Len(m) :
                                /\ m[i].key = k
                                /\ \A j \in (i + 1)..Len(m) : m[j].key # k
             IN  [kind |-> "map",
                  entries |-> [k \in {m[i].key : i \in 1..Len(m)} |->
                                  Unmarshal(m[Last(k)].value)]]
      [] text.kind = "array" ->
             [kind |-> "slice",
              entries |-> [i \in 1..Len(text.members) |-> Unmarshal(text.members[i].value)]]
      [] OTHER -> [kind |-> text.kind, entries |-> <<>>]

RECURSIVE getAllKeys(_)
getAllKeys(data) ==
    CASE data.kind = "map" ->
             DOMAIN data.entries
                 \cup UNION {getAllKeys(data.entries[k]) : k \in DOMAIN data.entries}
      [] data.kind = "slice" ->
             UNION {getAllKeys(data.entries[i]) : i \in DOMAIN data.entries}
      [] OTHER -> {}

\* json.Unmarshal into a map[string]interface{}: an object fills the map,
\* null leaves it nil, every other text is an error
GetAllKeys(text) ==
    IF text.kind \in {"object", "null"}
    THEN [keyMap |-> getAllKeys(Unmarshal(text)), err |-> Error("nil", "")]
    ELSE [keyMap |-> {}, err |-> Error("not a valid JSON string", "")]

\* the call has been made with a text and a value of a type
JSONInit ==
    /\ jsonString \in Documents
    /\ vType \in ParamTypes
    /\ jerr = Error("pending", "")

\* CheckJSONParam(jsonString, v); the keys of keyMap are visited in any order
CheckJSONParam ==
    /\ jerr.kind = "pending"
    /\ LET jsonTags == GetJsonTags(vType)
           keys == GetAllKeys(jsonString)
       IN  IF jsonTags.overflow
           THEN jerr' = Error("fatal error: stack overflow", "")
           ELSE IF keys.err.kind # "nil"
           THEN jerr' = keys.err
           ELSE IF keys.keyMap \subseteq jsonTags.tags
           THEN jerr' = Error("nil", "")
           ELSE \E key \in keys.keyMap \ jsonTags.tags : jerr' = Error("rogue field", key)
    /\ UNCHANGED <<jsonString, vType>>
    /\ UNCHANGED exceptJSON

\* no call of CheckJSONParam
JSONAtRest ==
    /\ jsonString = Text("null", <<>>)
    /\ vType = "string"
    /\ jerr = Error("nil", "")

\* the debug endpoint, the statsd counter, the cleaner and CheckJSONParam do
\* not take part
ExtrasAtRest == DebugAtRest /\ StatAtRest /\ CleanerAtRest /\ JSONAtRest

(***************************************************************************)
(* Cluster-aware writer: tables, handles, locals                           *)
(***************************************************************************)
\* two PrometheusWriter instances (decoders), one peer ClickHouse endpoint,
\* one metric name
Writers == 1..2
Peers == 1..1
Metrics == 1..1

\* var prometheusCKWriters [MAX_APP_LABEL_COLUMN_INDEX]*ckwriter.CKWriter
WriterSlots == 0..(MAX_APP_LABEL_COLUMN_INDEX - 1)

\* a nil *ckwriter.CKWriter, and the handle writer p creates for width w
NoWriter == [w |-> -1, by |-> NoOne]
Handle(w, p) == [w |-> w, by |-> p]

\* the tables ALTERed by addAppLabelColumns, in the order of its inner loop
AlterTables == <<"local", "dist">>

NoCall == [op |-> "none", len |-> 0, n |-> 0, m |-> 0, count |-> 0, cur |-> 0,
           i |-> 0, t |-> 1, alters |-> <<>>, warn |-> 0, err |-> "nil",
           writer |-> NoWriter, initErr |-> "nil", batch |-> <<>>]

\* no Put yet
NoPut == [writer |-> NoWriter, n |-> 0, items |-> <<>>, tagged |-> <<>>]

PutFirstOnly(h, batch) ==
    [writer |-> h, n |-> 1, items |-> <<batch[1]>>, tagged |-> <<batch[1]>>]

\* prometheusMetrics.GenerateNewFlowTags(...) on batch[0] and
\* ckwriter.Put(batch...) into writer h; a sample is known by the len of its
\* AppLabelValueIDs
PutBatch(h, batch) ==
    [writer |-> h, n |-> Len(batch), items |-> batch, tagged |-> <<batch[1]>>]

\* getOrCreateCkwriter returns (writer, err) to the call l: its own locals end
Return(l, writer, err) ==
    [NoCall EXCEPT !.op = l.op, !.len = l.len, !.n = l.n, !.m = l.m, !.batch = l.batch,
                   !.initErr = l.initErr, !.writer = writer, !.err = err]

ZeroCounter == [MetricsCount |-> 0, WriteErr |-> 0]

\* the state of the ClickHouse tables at process start: no table yet, or the
\* tables left by an earlier run with columns 1..k
WriterInit ==
    /\ ckWriters = [w \in WriterSlots |-> NoWriter]
    /\ mutex = NoOne
    /\ running = {}
    /\ lastPut = NoPut
    /\ \E k \in -1..(MAX_APP_LABEL_COLUMN_INDEX - 1) :
          /\ tableExists = (k >= 0)
          /\ localCols = 1..k
          /\ distCols = 1..k
    /\ peerTable = [n \in Peers |-> FALSE]
    /\ peerCols = [n \in Peers |-> {}]
    /\ wpc = [p \in Writers |-> "new"]
    /\ conn = [p \in Writers |-> FALSE]
    /\ counter = [p \in Writers |-> ZeroCounter]
    /\ tagCache = [p \in Writers |-> {}]
    /\ warnings = [p \in Writers |-> 0]
    /\ loc = [p \in Writers |-> NoCall]
    /\ held = [p \in Writers |-> "none"]
    /\ returned = [p \in Writers |-> ZeroCounter]

\* the writer side does not take part
WriterAtRest ==
    /\ ckWriters = [w \in WriterSlots |-> NoWriter]
    /\ mutex = NoOne
    /\ running = {}
    /\ lastPut = NoPut
    /\ tableExists = FALSE
    /\ localCols = {}
    /\ distCols = {}
    /\ peerTable = [n \in Peers |-> FALSE]
    /\ peerCols = [n \in Peers |-> {}]
    /\ wpc = [p \in Writers |-> "new"]
    /\ conn = [p \in Writers |-> FALSE]
    /\ counter = [p \in Writers |-> ZeroCounter]
    /\ tagCache = [p \in Writers |-> {}]
    /\ warnings = [p \in Writers |-> 0]
    /\ loc = [p \in Writers |-> NoCall]
    /\ held = [p \in Writers |-> "none"]
    /\ returned = [p \in Writers |-> ZeroCounter]

\* a panic (index out of range) in any goroutine ends the process
Crashed == \E p \in Writers : wpc[p] = "panic"

(***************************************************************************)
(* Cluster-aware writer: getOrCreateCkwriter, first part                   *)
(***************************************************************************)
\* appLabelCount := len(s.AppLabelValueIDs) - 1
AppLabelCount(len) == len - 1

\* if len(s.AppLabelValueIDs) == 0 / if appLabelCount > MAX_APP_LABEL_COLUMN_INDEX
Rejected(len) == len = 0 \/ AppLabelCount(len) > MAX_APP_LABEL_COLUMN_INDEX

\* prometheusCKWriters[columnCount] of getPrometheusCKWriters is in the array
InArray(columnCount) == columnCount \in WriterSlots

\* getPrometheusCKWriters(columnCount)
getPrometheusCKWriters(columnCount) == ckWriters[columnCount]

\* getOrCreateCkwriter up to lockPrometheusCKWriters, for the call l of p:
\* the position reached and the locals
Entry(p, l) ==
    LET c == AppLabelCount(l.len) IN
    IF Rejected(l.len)
    THEN <<"finish", Return(l, NoWriter, "err")>>
    ELSE IF ~InArray(c)
    THEN <<"panic", [l EXCEPT !.count = c]>>
    ELSE IF getPrometheusCKWriters(c) # NoWriter
    THEN <<"finish", Return(l, getPrometheusCKWriters(c), "nil")>>
    ELSE <<"lock", [l EXCEPT !.count = c]>>

\* NewPrometheusWriter -> InitTable: dial, CREATE DATABASE IF NOT EXISTS, then
\* getOrCreateCkwriter for a sample with one (the target) label
InitTable(p, dialOk, dbErr) ==
    /\ wpc[p] = "new"
    /\ ~Crashed
    /\ IF ~dialOk
       THEN /\ wpc' = [wpc EXCEPT ![p] = "dead"]
            /\ UNCHANGED <<conn, loc>>
       ELSE LET e == Entry(p, [NoCall EXCEPT !.op = "InitTable", !.len = 1,
                                             !.initErr = dbErr])
            IN /\ conn' = [conn EXCEPT ![p] = TRUE]
               /\ wpc' = [wpc EXCEPT ![p] = e[1]]
               /\ loc' = [loc EXCEPT ![p] = e[2]]
    /\ UNCHANGED <<ckWriters, mutex, running, lastPut, tableExists, localCols,
                   distCols, peerTable, peerCols, counter, tagCache>>
    /\ UNCHANGED <<warnings, exceptWriter>>

\* InitTable returns the error of CREATE DATABASE, whatever getOrCreateCkwriter
\* returned; NewPrometheusWriter fails on it
InitTableReturn(p) ==
    /\ wpc[p] = "finish"
    /\ loc[p].op = "InitTable"
    /\ ~Crashed
    /\ wpc' = [wpc EXCEPT ![p] = IF loc[p].initErr = "err" THEN "dead" ELSE "idle"]
    /\ loc' = [loc EXCEPT ![p] = NoCall]
    /\ UNCHANGED <<ckWriters, mutex, running, lastPut, tableExists, localCols,
                   distCols, peerTable, peerCols, conn, counter, tagCache>>
    /\ UNCHANGED <<warnings, exceptWriter>>

\* the other PrometheusWriters were not built: NewPrometheusWriter failed
Alone(p) == \A q \in Writers \ {p} : wpc[q] = "dead"

BatchCap(p) == IF Alone(p) THEN MaxBatchAlone ELSE MaxBatch

CountCap(p) == IF Alone(p) THEN MaxCountAlone ELSE MaxCount

\* the warnings of a writer that is not alone are not counted
WarningCap(p) == IF Alone(p) THEN MaxWarnings ELSE 0

\* the lengths of AppLabelValueIDs tried: empty, every width of the array, the
\* width MAX_APP_LABEL_COLUMN_INDEX, and one beyond it
SampleLens == 0..(MAX_APP_LABEL_COLUMN_INDEX + 2)

\* the batches handed to WriteBatch, each sample known by the len of its
\* AppLabelValueIDs: the samples after the first have one or two labels
Batches(p) ==
    { b \in UNION { [1..n -> SampleLens] : n \in 0..BatchCap(p) } :
        \A i \in 2..Len(b) : b[i] \in {1, 2} }

\* WriteBatch with a batch of samples of metric m: an empty batch returns at
\* once, otherwise getOrCreateCkwriter is called for batch[0]
WriteBatch(p, batch, m) ==
    /\ wpc[p] = "idle"
    /\ ~Crashed
    /\ counter[p].MetricsCount + Len(batch) <= CountCap(p)
    /\ counter[p].WriteErr < CountCap(p)
    /\ IF Len(batch) = 0
       THEN UNCHANGED <<wpc, loc>>
       ELSE LET e == Entry(p, [NoCall EXCEPT !.op = "WriteBatch", !.len = batch[1],
                                             !.n = Len(batch), !.m = m,
                                             !.batch = batch])
            IN /\ wpc' = [wpc EXCEPT ![p] = e[1]]
               /\ loc' = [loc EXCEPT ![p] = e[2]]
    /\ UNCHANGED <<ckWriters, mutex, running, lastPut, tableExists, localCols,
                   distCols, peerTable, peerCols, conn, counter, tagCache>>
    /\ UNCHANGED <<warnings, exceptWriter>>

\* lockPrometheusCKWriters()
Lock(p) ==
    /\ wpc[p] = "lock"
    /\ ~Crashed
    /\ mutex = NoOne
    /\ mutex' = p
    /\ wpc' = [wpc EXCEPT ![p] = "locked"]
    /\ UNCHANGED <<ckWriters, running, lastPut, tableExists, localCols, distCols,
                   peerTable, peerCols, conn, counter, tagCache, loc>>
    /\ UNCHANGED <<warnings, exceptWriter>>

SecondCheckSkipped(columnCount) == FALSE

\* "check again": the slot is filled by now
SecondCheck(columnCount) == getPrometheusCKWriters(columnCount) # NoWriter

\* under the mutex: check again; if the slot is still empty make sure there is
\* a connection (common.NewCKConnections may fail)
CheckAgain(p, dialOk) ==
    /\ wpc[p] = "locked"
    /\ ~Crashed
    /\ IF SecondCheck(loc[p].count)
       THEN /\ wpc' = [wpc EXCEPT ![p] = "finish"]
            /\ loc' = [loc EXCEPT ![p] =
                   Return(@, getPrometheusCKWriters(loc[p].count), "nil")]
            /\ mutex' = NoOne
            /\ conn' = conn
       ELSE IF conn[p] \/ dialOk
       THEN /\ wpc' = [wpc EXCEPT ![p] = "create"]
            /\ conn' = [conn EXCEPT ![p] = TRUE]
            /\ UNCHANGED <<loc, mutex>>
       ELSE /\ wpc' = [wpc EXCEPT ![p] = "finish"]
            /\ loc' = [loc EXCEPT ![p] = Return(@, NoWriter, "err")]
            /\ mutex' = NoOne
            /\ conn' = conn
    /\ UNCHANGED <<ckWriters, running, lastPut, tableExists, localCols, distCols,
                   peerTable, peerCols, counter, tagCache>>
    /\ UNCHANGED <<warnings, exceptWriter>>

(***************************************************************************)
(* Cluster-aware writer: creation of the writer and widening of the schema *)
(***************************************************************************)
\* the columns of a table after CREATE TABLE IF NOT EXISTS with the schema
\* GenCKTable gave for appLabelCount columns
CreateIfNotExists(exists, cols, appLabelCount) ==
    IF exists THEN cols ELSE 1..appLabelCount

\* ckwriter.NewCKWriter: creates database and tables when they do not exist and
\* returns a writer that is not running yet, or fails
NewCKWriter(p, ok) ==
    /\ wpc[p] = "create"
    /\ ~Crashed
    /\ IF ok
       THEN /\ tableExists' = TRUE
            /\ localCols' = CreateIfNotExists(tableExists, localCols, loc[p].count)
            /\ distCols' = CreateIfNotExists(tableExists, distCols, loc[p].count)
            /\ wpc' = [wpc EXCEPT ![p] = "count"]
            /\ UNCHANGED <<loc, mutex>>
       ELSE /\ wpc' = [wpc EXCEPT ![p] = "finish"]
            /\ loc' = [loc EXCEPT ![p] = Return(@, NoWriter, "err")]
            /\ mutex' = NoOne
            /\ UNCHANGED <<tableExists, localCols, distCols>>
    /\ UNCHANGED <<ckWriters, running, lastPut, peerTable, peerCols, conn, counter,
                   tagCache>>
    /\ UNCHANGED <<warnings, exceptWriter>>

\* SELECT count(0) FROM system.columns where ... table='samples' and name like
\* '%app_label_value%'
CurrentAppLabelColumnCount == Cardinality(distCols)

\* if currentCount < appLabelCount
NeedWiden(currentCount, appLabelCount) == currentCount < appLabelCount

StartIndexSkips(currentCount) == currentCount + 2

\* startIndex, endIndex := currentCount+1, appLabelCount
StartIndex(currentCount) == currentCount + 1

\* getCurrentAppLabelColumnCount and the test that follows it: a failed query
\* drops the connection, a failed Scan does not
GetCurrentCount(p, r) ==
    /\ wpc[p] = "count"
    /\ ~Crashed
    /\ \/ /\ r = "queryErr"
          /\ conn' = [conn EXCEPT ![p] = FALSE]
          /\ wpc' = [wpc EXCEPT ![p] = "finish"]
          /\ loc' = [loc EXCEPT ![p] = Return(@, NoWriter, r)]
          /\ mutex' = NoOne
       \/ /\ r = "scanErr"
          /\ wpc' = [wpc EXCEPT ![p] = "finish"]
          /\ loc' = [loc EXCEPT ![p] = Return(@, NoWriter, r)]
          /\ mutex' = NoOne
          /\ conn' = conn
       \/ /\ r = "ok"
          /\ LET cur == CurrentAppLabelColumnCount IN
             IF NeedWiden(cur, loc[p].count) /\ StartIndex(cur) <= loc[p].count
             THEN /\ wpc' = [wpc EXCEPT ![p] = "alter"]
                  /\ loc' = [loc EXCEPT ![p].cur = cur, ![p].i = StartIndex(cur),
                                        ![p].t = 1]
             ELSE /\ wpc' = [wpc EXCEPT ![p] =
                          IF NeedWiden(cur, loc[p].count) THEN "cluster" ELSE "run"]
                  /\ loc' = [loc EXCEPT ![p].cur = cur]
          /\ UNCHANGED <<conn, mutex>>
    /\ UNCHANGED <<ckWriters, running, lastPut, tableExists, localCols, distCols,
                   peerTable, peerCols, counter, tagCache>>
    /\ UNCHANGED <<warnings, exceptWriter>>

\* what ClickHouse answers to ALTER TABLE ... ADD COLUMN app_label_value_id_i
AlterOutcomes(cols, i) ==
    IF i \in cols THEN {"exists", "fail"} ELSE {"ok", "fail"}

AlterAbortsOnAny(r) == r # "ok"

\* if err != nil and not "column with this name already exists": return err
AlterAborts(r) == r \notin {"ok", "exists"}

\* one ALTER TABLE of addAppLabelColumns(w.ckdbConn, startIndex, endIndex) and
\* the loop step after it
AddAppLabelColumn(p, r) ==
    /\ wpc[p] = "alter"
    /\ ~Crashed
    /\ LET i == loc[p].i
           t == AlterTables[loc[p].t]
           cols == IF t = "local" THEN localCols ELSE distCols
           l == [loc[p] EXCEPT !.alters = Append(@, <<i, t, r>>)]
       IN /\ r \in AlterOutcomes(cols, i)
          /\ localCols' = IF t = "local" /\ r = "ok" THEN localCols \cup {i} ELSE localCols
          /\ distCols' = IF t = "dist" /\ r = "ok" THEN distCols \cup {i} ELSE distCols
          /\ IF AlterAborts(r)
             THEN /\ wpc' = [wpc EXCEPT ![p] = "finish"]
                  /\ loc' = [loc EXCEPT ![p] = Return(l, NoWriter, r)]
                  /\ mutex' = NoOne
             ELSE IF loc[p].t < Len(AlterTables)
             THEN /\ loc' = [loc EXCEPT ![p] = [l EXCEPT !.t = @ + 1]]
                  /\ UNCHANGED <<wpc, mutex>>
             ELSE IF i < loc[p].count
             THEN /\ loc' = [loc EXCEPT ![p] = [l EXCEPT !.i = @ + 1, !.t = 1]]
                  /\ UNCHANGED <<wpc, mutex>>
             ELSE /\ wpc' = [wpc EXCEPT ![p] = "cluster"]
                  /\ loc' = [loc EXCEPT ![p] = l]
                  /\ mutex' = mutex
    /\ UNCHANGED <<ckWriters, running, lastPut, tableExists, peerTable, peerCols,
                   conn, counter, tagCache>>
    /\ UNCHANGED <<warnings, exceptWriter>>

\* createTableOnCluster: no endpoints is an error (a warning of the caller);
\* otherwise ckwriter.InitTable on every endpoint, a failure is a warning
createTableOnCluster(p, endpointsOk, okPeers) ==
    /\ wpc[p] = "cluster"
    /\ ~Crashed
    /\ IF endpointsOk
       THEN /\ peerTable' = [n \in Peers |-> peerTable[n] \/ n \in okPeers]
            /\ peerCols' = [n \in Peers |->
                   IF n \in okPeers
                   THEN CreateIfNotExists(peerTable[n], peerCols[n], loc[p].count)
                   ELSE peerCols[n]]
            /\ loc' = [loc EXCEPT ![p].warn = @ + Cardinality(Peers \ okPeers)]
       ELSE /\ okPeers = {}
            /\ loc' = [loc EXCEPT ![p].warn = @ + 1]
            /\ UNCHANGED <<peerTable, peerCols>>
    /\ wpc' = [wpc EXCEPT ![p] = "cluster2"]
    /\ UNCHANGED <<ckWriters, mutex, running, lastPut, tableExists, localCols,
                   distCols, conn, counter, tagCache>>
    /\ UNCHANGED <<warnings, exceptWriter>>

PeerFailureAborts(r) == IF r = "ok" THEN "run" ELSE "finish"

\* getOrCreateCkwriter after the peer calls: their errors are logged, the
\* writer is started next
AfterPeers(r) == "run"

\* addAppLabelColumnsOnCluster: endpoints, one connection set for all peers,
\* then the ALTER TABLEs startIndex..endIndex on it; upTo is the last index the
\* peers got before an ALTER failed
addAppLabelColumnsOnCluster(p, r, upTo) ==
    /\ wpc[p] = "cluster2"
    /\ ~Crashed
    /\ LET start == StartIndex(loc[p].cur)
           added == IF r = "ok" THEN start..loc[p].count
                    ELSE IF r = "execErr" THEN start..upTo ELSE {}
       IN /\ r = "ok" => \A n \in Peers : peerTable[n]
          /\ r = "execErr" => upTo \in (start - 1)..(loc[p].count - 1)
          /\ r # "execErr" => upTo = 0
          /\ peerCols' = [n \in Peers |->
                 IF peerTable[n] THEN peerCols[n] \cup added ELSE peerCols[n]]
    /\ wpc' = [wpc EXCEPT ![p] = AfterPeers(r)]
    /\ loc' = [loc EXCEPT ![p] =
           IF AfterPeers(r) = "finish" THEN Return(@, NoWriter, "err")
           ELSE [@ EXCEPT !.warn = IF r = "ok" THEN @ ELSE @ + 1]]
    /\ mutex' = IF AfterPeers(r) = "finish" THEN NoOne ELSE mutex
    /\ UNCHANGED <<ckWriters, running, lastPut, tableExists, localCols, distCols,
                   peerTable, conn, counter, tagCache>>
    /\ UNCHANGED <<warnings, exceptWriter>>

\* ckwriter.Run(); setPrometheusCKWriters(appLabelCount, ckwriter); return
RunAndPublish(p) ==
    /\ wpc[p] = "run"
    /\ ~Crashed
    /\ LET h == Handle(loc[p].count, p)
       IN /\ running' = running \cup {h}
          /\ ckWriters' = [ckWriters EXCEPT ![loc[p].count] = h]
          /\ loc' = [loc EXCEPT ![p] = Return(@, h, "nil")]
    /\ mutex' = NoOne
    /\ wpc' = [wpc EXCEPT ![p] = "finish"]
    /\ UNCHANGED <<lastPut, tableExists, localCols, distCols, peerTable, peerCols,
                   conn, counter, tagCache>>
    /\ UNCHANGED <<warnings, exceptWriter>>

(***************************************************************************)
(* Remote-read translator: names, requests, SQL                            *)
(***************************************************************************)
\* config.Cfg.Prometheus.AutoTaggingPrefix
AutoTaggingPrefix == "df_"

\* A tag or label name is the sequence of the parts its string is made of, a
\* known prefix being one part: <<"k8s_label_", "app">> is k8s_label_app.
HasPrefix(name, p) == Len(name) > 0 /\ name[1] = p

TrimPrefix(name, p) == IF HasPrefix(name, p) THEN Tail(name) ELSE name

\* rules for convert prom tag to native tag
matcherRules == ("k8s_label_" :> "k8s.label." @@ "cloud_tag_" :> "cloud.tag.")

convertToQuerierAllowedTagName(matcherName) ==
    IF Len(matcherName) > 0 /\ matcherName[1] \in DOMAIN matcherRules
    THEN <<matcherRules[matcherName[1]]>> \o Tail(matcherName)
    ELSE matcherName

removeDeepFlowPrefix(tag) == TrimPrefix(tag, AutoTaggingPrefix)

\* strings.Replace(tag, "tag_", "", 1): the first "tag_" goes, wherever it is
removeTagPrefix(tag) ==
    IF \E i \in 1..Len(tag) : tag[i] = "tag_"
    THEN LET i == CHOOSE j \in 1..Len(tag) :
                     tag[j] = "tag_" /\ \A k \in 1..(j - 1) : tag[k] # "tag_"
         IN  SubSeq(tag, 1, i - 1) \o SubSeq(tag, i + 1, Len(tag))
    ELSE tag

\* EXT_METRICS_TIME_COLUMNS, EXT_METRICS_NATIVE_TAG_NAME as names
TimeColumn == <<"timestamp">>
NativeTagColumn == <<"tag">>

\* the keys of chCommon.DB_TABLE_MAP
DB_TABLE_MAP == {"flow_log", "flow_metrics", "ext_metrics", "deepflow_system",
                 "prometheus"}

\* the dbs whose samples are read without aggregation (lines 151 and 208)
SampleDBs == {"", "ext_metrics", "deepflow_system", "prometheus"}

\* aggFunctions; view.FUNCTION_SUM ... are the querier's function names
aggFunctions ==
    ("sum" :> "Sum" @@ "avg" :> "Avg" @@ "count" :> "Count" @@ "min" :> "Min" @@
     "max" :> "Max" @@ "group" :> "1" @@ "stddev" :> "Stddev" @@ "stdvar" :> "" @@
     "topk" :> "" @@ "bottomk" :> "" @@ "count_values" :> "Count" @@
     "quantile" :> "")

AggOperatorOfAny(func) == "Sum"

\* aggFunctions[q.Hints.Func]: the zero value "" for a missing key
AggOperator(func) == IF func \in DOMAIN aggFunctions THEN aggFunctions[func] ELSE ""

\* the value of __name__ as strings.Split(metricName, "__") gives it; NoName
\* when the query has no matcher named __name__
NoName == <<>>

MetricNames ==
    { <<"up">>,
      <<"flow_log", "l7_flow_log", "up">>,
      <<"flow_metrics", "vtap_flow_port", "up", "1m">>,
      <<"ext_metrics", "metrics", "prometheus_up">>,
      <<"prometheus", "samples", "up">>,
      <<"deepflow_system", "deepflow_server", "up">>,
      <<"foo", "bar", "baz">>,
      <<"flow_log", "l7_flow_log">>,
      NoName }

\* strings.SplitN(metricName, "_", 2) on the metric names above
SplitN2(s) ==
    CASE s = "prometheus_up" -> <<"prometheus", "up">>
      [] OTHER -> <<s>>

\* a table name: src.name, or name alone when src is empty
Table(src, name) == [src |-> src, name |-> name]
NoTable == Table("", "")

ParsedMetric(prefixType, metricName, db, table, dataPrecision, metricAlias, err) ==
    [prefixType |-> prefixType, metricName |-> metricName, db |-> db,
     table |-> table, dataPrecision |-> dataPrecision, metricAlias |-> metricAlias,
     err |-> err, panic |-> FALSE]

\* metricsSplit[2] of a known db with fewer than three segments
IndexOutOfRange == [ParsedMetric("prefixNone", "", "", NoTable, "", "", "nil")
                        EXCEPT !.panic = TRUE]

PrecisionIgnored(metricsSplit) == ""

\* if len(metricsSplit) > 3 { dataPrecision = metricsSplit[3] }
DataPrecision(metricsSplit) == IF Len(metricsSplit) > 3 THEN metricsSplit[4] ELSE ""

\* parseMetric on the value of the first __name__ matcher; the metricAlias
\* "metrics.%s" is "direct", "value as `metrics.%s`" is "value" and
\* "%s as `metrics.%s`" is "expr"
parseMetric(metricsSplit) ==
    IF metricsSplit = NoName
    THEN ParsedMetric("prefixNone", "", "", NoTable, "", "", "nil")
    ELSE IF Len(metricsSplit) = 1
    THEN ParsedMetric("prefixDeepFlow", metricsSplit[1], "",
                      Table("", metricsSplit[1]), "", "value", "nil")
    ELSE IF metricsSplit[1] \notin DB_TABLE_MAP
    THEN ParsedMetric("prefixNone", "", "", NoTable, "", "", "unknown metrics")
    ELSE IF Len(metricsSplit) < 3
    THEN IndexOutOfRange
    ELSE LET db == metricsSplit[1]
             table == metricsSplit[2]
             metricName == metricsSplit[3]
             realMetrics == SplitN2(metricName)
             dataPrecision == DataPrecision(metricsSplit)
         IN  IF db = "deepflow_system"
             THEN ParsedMetric("prefixNone", metricName, db, Table("", table),
                               dataPrecision, "direct", "nil")
             ELSE IF db = "ext_metrics"
             THEN IF Len(realMetrics) > 1
                  THEN ParsedMetric("prefixTag", realMetrics[2], db,
                                    Table(realMetrics[1], realMetrics[2]),
                                    dataPrecision, "direct", "nil")
                  ELSE ParsedMetric("prefixTag", metricName, db, Table("", table),
                                    dataPrecision, "direct", "nil")
             ELSE IF db = "prometheus"
             THEN ParsedMetric("prefixTag", metricName, db, Table("", metricName),
                               dataPrecision, "value", "nil")
             ELSE ParsedMetric("prefixNone", metricName, db, Table("", table),
                               dataPrecision, "expr", "nil")

\* one element of the projection (metricsArray): kind is time, label, metric,
\* tag or tagfield; fn and col are the expression, sec the step of time(time, sec)
Column(kind, fn, sec, col, name) ==
    [kind |-> kind, fn |-> fn, sec |-> sec, col |-> col, name |-> name]

\* "toUnixTimestamp(time) AS timestamp"
UnixTime == Column("time", "toUnixTimestamp", 0, "time", TimeColumn)

\* q.Hints.StepMs/1e3
StepSec(stepMs) == stepMs \div 1000

\* "time(time, %d) AS timestamp"
StepTime(stepMs) == Column("time", "time", StepSec(stepMs), "time", TimeColumn)

\* "`%s`" of a label, a tag of SHOW tags or the metric of count_values
LabelColumn(name) == Column("label", "", 0, "", name)

\* "`tag`"
TagColumn == Column("tag", "", 0, "", NativeTagColumn)

\* "`tag.%s`"
TagFieldColumn(name) == Column("tagfield", "", 0, "", name)

\* fmt.Sprintf(metricAlias, ...): fn(`col`) as `metrics.metricName`
MetricColumn(fn, col, metricName) == Column("metric", fn, 0, col, <<metricName>>)

\* one element of the WHERE clause
TimeFilter(startTime, endTime) ==
    [kind |-> "time", ge |-> startTime, le |-> endTime, tagdot |-> FALSE,
     col |-> <<"time">>, op |-> "", value |-> ""]

MatchFilter(tagdot, col, op, value) ==
    [kind |-> "match", ge |-> 0, le |-> 0, tagdot |-> tagdot, col |-> col,
     op |-> op, value |-> value]

\* the SQL text by its clauses; NoSQL is the empty string
SQL(select, from, where, groupBy, orderBy) ==
    [select |-> select, from |-> from, where |-> where, groupBy |-> groupBy,
     orderBy |-> orderBy]

NoSQL == SQL(<<>>, NoTable, <<>>, <<>>, "")

\* parseToQuerierSQL: GROUP BY only for a db and a non-empty groupBy
parseToQuerierSQL(db, table, metrics, filters, groupBy) ==
    IF db # ""
    THEN SQL(metrics, table, filters, groupBy, "timestamp desc")
    ELSE SQL(metrics, table, filters, <<>>, "timestamp desc")

\* getLabelMatcherType
getLabelMatcherType(t) ==
    CASE t = "EQ" -> "="
      [] t = "NEQ" -> "!="
      [] t = "RE" -> "REGEXP"
      [] t = "NRE" -> "NOT REGEXP"
      [] OTHER -> ""

(***************************************************************************)
(* Remote-read translator: promReaderTransToSQL                            *)
(***************************************************************************)
\* what promReaderTransToSQL returns: the context (the value of
\* ctxKeyPrefixType, "unset" when the context is the caller's), the SQL, db,
\* dataPrecision and the error (err is the format, errArg its argument)
TransOut(ctx, sql, db, dataPrecision, err) ==
    [ctx |-> ctx, sql |-> sql, db |-> db, dataPrecision |-> dataPrecision,
     err |-> err, errArg |-> "", panic |-> FALSE]

NoTrans == TransOut("unset", NoSQL, "", "", "nil")

Failed(ctx, err) == TransOut(ctx, NoSQL, "", "", err)

edgeTableNames == {"vtap_flow_edge_port", "vtap_app_edge_port", "l4_flow_log",
                   "l7_flow_log"}

ignorableTagNames == {"pod_ingress", "lb_listener", "time"}

\* one row of the tag descriptions: name, client_name, server_name, type
TagDescription(name, client, server, type) ==
    [name |-> name, client |-> client, server |-> server, type |-> type]

RECURSIVE showTags(_, _)
\* showTags after GetTagDescriptions returned data: the columns to select
showTags(table, data) ==
    IF data = <<>> THEN <<>>
    ELSE LET v == Head(data)
             rest == showTags(table, Tail(data))
         IN  IF v.name \in ignorableTagNames \/ v.type = "map"
             THEN rest
             ELSE IF table.name \in edgeTableNames /\ v.name # v.client
             THEN <<LabelColumn(<<v.client>>), LabelColumn(<<v.server>>)>> \o rest
             ELSE <<LabelColumn(<<v.name>>)>> \o rest

\* the filter and the projection columns one matcher adds (lines 230-264);
\* op is "" for an unknown match type
MatcherSQL(db, matcher, debug) ==
    LET operation == getLabelMatcherType(matcher.Type)
    IN  IF db \in {"", "deepflow_system"}
        THEN IF HasPrefix(matcher.Name, AutoTaggingPrefix)
             THEN LET tagName == convertToQuerierAllowedTagName(
                                     removeDeepFlowPrefix(matcher.Name))
                  IN  [op |-> operation,
                       filter |-> MatchFilter(FALSE, tagName, operation, matcher.Value),
                       cols |-> IF debug THEN <<LabelColumn(tagName)>> ELSE <<>>]
             ELSE [op |-> operation,
                   filter |-> MatchFilter(TRUE, matcher.Name, operation, matcher.Value),
                   cols |-> <<TagFieldColumn(matcher.Name)>>]
        ELSE IF HasPrefix(matcher.Name, "tag_")
             THEN LET tagName == removeTagPrefix(matcher.Name)
                  IN  [op |-> operation,
                       filter |-> MatchFilter(TRUE, tagName, operation, matcher.Value),
                       cols |-> IF debug THEN <<TagFieldColumn(tagName)>> ELSE <<>>]
             ELSE [op |-> operation,
                   filter |-> MatchFilter(FALSE,
                                  convertToQuerierAllowedTagName(matcher.Name),
                                  operation, matcher.Value),
                   cols |-> <<>>]

RECURSIVE MatchersSQL(_, _, _)
\* the loop over q.Matchers without the __name__ matcher: ok is FALSE at the
\* first unknown match type
MatchersSQL(db, matchers, debug) ==
    IF matchers = <<>> THEN [ok |-> TRUE, filters |-> <<>>, cols |-> <<>>]
    ELSE LET m == MatcherSQL(db, Head(matchers), debug)
             rest == MatchersSQL(db, Tail(matchers), debug)
         IN  IF m.op = "" THEN [ok |-> FALSE, filters |-> <<>>, cols |-> <<>>]
             ELSE [ok |-> rest.ok, filters |-> <<m.filter>> \o rest.filters,
                   cols |-> m.cols \o rest.cols]

\* startTime := q.Hints.StartMs / 1000
StartTime(q) == q.StartMs \div 1000

EndTimeAlwaysNext(q) == (q.EndMs \div 1000) + 1

\* endTime := q.Hints.EndMs / 1000; if q.EndTimestampMs%1000 > 0 { endTime += 1 }
EndTime(q) == (q.EndMs \div 1000) + (IF q.EndTimestampMs % 1000 > 0 THEN 1 ELSE 0)

StepAlways(db, showTag) == TRUE

\* the branch in which `time` is rebuilt for the step: not for SHOW tags, and
\* only for a db that is not read sample by sample
Aggregated(db, showTag) == ~showTag /\ db \notin SampleDBs

\* metricsArray[0] after line 173
TimeProjection(q, db, showTag) ==
    IF Aggregated(db, showTag) /\ q.StepMs > 0 THEN StepTime(q.StepMs) ELSE UnixTime

GroupingUnchecked(q) == "nil"

\* lines 153-160: the error for the Grouping and By of the hints, or "nil"
GroupingError(q) ==
    IF Len(q.Grouping) = 0 THEN "unknown series"
    ELSE IF ~q.By THEN "not support for 'without' clause for aggregation"
    ELSE "nil"

TimestampLast(labels) == labels \o <<TimeColumn>>

\* groupBy after lines 175-184: timestamp, then the labels
GroupByOf(labels) == <<TimeColumn>> \o labels

CountOnAnyDb(aggOperator, func, db, metricName) ==
    IF aggOperator = "Count"
    THEN [err |-> "nil", fn |-> "Sum", col |-> "log_count", extra |-> <<>>]
    ELSE [err |-> "nil", fn |-> aggOperator, col |-> metricName, extra |-> <<>>]

\* lines 186-204 for an aggOperator that is not "": the metric expression
\* (fn, col), the columns count_values adds, or the error
Aggregation(aggOperator, func, db, metricName) ==
    IF aggOperator \in {"Sum", "Avg", "Min", "Max", "Stddev"}
    THEN [err |-> "nil", fn |-> aggOperator, col |-> metricName, extra |-> <<>>]
    ELSE IF aggOperator = "1"
    THEN [err |-> "nil", fn |-> "1", col |-> "", extra |-> <<>>]
    ELSE IF aggOperator = "Count"
    THEN IF db # "flow_log"
         THEN [err |-> "only supported Count for flow_log", fn |-> "", col |-> "",
               extra |-> <<>>]
         ELSE [err |-> "nil", fn |-> "Sum", col |-> "log_count",
               extra |-> IF func = "count_values" THEN <<<<metricName>>>> ELSE <<>>]
    ELSE [err |-> "nil", fn |-> "", col |-> "", extra |-> <<>>]

\* fmt.Sprintf("", metricName): the format has no verb, the text is
\* "%!(EXTRA string=" metricName ")" and has no alias
ExtraArgument(metricName) ==
    Column("verbatim", "", 0, "", <<"%!(EXTRA string=", metricName, ")">>)

\* lines 208-222: the metric column
MetricProjection(pm, fn, col) ==
    IF pm.metricAlias = ""
    THEN ExtraArgument(pm.metricName)
    ELSE IF pm.db \in SampleDBs
    THEN MetricColumn(IF pm.metricAlias = "value" THEN "value" ELSE "", pm.metricName,
                      pm.metricName)
    ELSE IF fn # ""
    THEN MetricColumn(fn, col, pm.metricName)
    ELSE MetricColumn("", pm.metricName, pm.metricName)

RECURSIVE Labels(_)
\* "`%s`" of convertToQuerierAllowedTagName for every label of the Grouping
Labels(grouping) ==
    IF grouping = <<>> THEN <<>>
    ELSE <<convertToQuerierAllowedTagName(Head(grouping))>> \o Labels(Tail(grouping))

LabelColumns(names) == [i \in 1..Len(names) |-> LabelColumn(names[i])]

\* lines 135-268 once the metric is parsed without error: the projection, the
\* filters, the GROUP BY and the SQL. tagsErr and data are what
\* GetTagDescriptions answers, debug is RequestQueryWithDebug
Translated(q, pm, showTag, tagsErr, data, debug) ==
    LET db == pm.db
        time == TimeProjection(q, db, showTag)
        labels == Labels(q.Grouping)
        agg == Aggregation(AggOperator(q.Func), q.Func, db, pm.metricName)
        grouped == Aggregated(db, showTag)
        groupBy == IF grouped THEN GroupByOf(labels) \o agg.extra ELSE <<>>
        tagCols == IF showTag THEN showTags(pm.table, data)
                   ELSE IF grouped THEN LabelColumns(labels) \o LabelColumns(agg.extra)
                   ELSE <<>>
        metric == MetricProjection(pm, IF grouped THEN agg.fn ELSE "", agg.col)
        native == IF db \in SampleDBs THEN <<metric, TagColumn>> ELSE <<metric>>
        ms == MatchersSQL(db, q.extra, debug)
        filters == <<TimeFilter(StartTime(q), EndTime(q))>> \o ms.filters
        metrics == <<time>> \o tagCols \o native \o ms.cols
    IN  IF showTag /\ tagsErr
        THEN Failed(pm.prefixType, "show tags failed")
        ELSE IF grouped /\ GroupingError(q) # "nil"
        THEN Failed(pm.prefixType, GroupingError(q))
        ELSE IF grouped /\ AggOperator(q.Func) = ""
        THEN [Failed(pm.prefixType, "aggregation operator: %s is not supported yet")
                  EXCEPT !.errArg = q.Func]
        ELSE IF grouped /\ agg.err # "nil"
        THEN Failed(pm.prefixType, agg.err)
        ELSE IF ~ms.ok
        THEN Failed(pm.prefixType, "unknown match type")
        ELSE TransOut(pm.prefixType,
                      parseToQuerierSQL(db, pm.table, metrics, filters, groupBy),
                      db, pm.dataPrecision, "nil")

RateNeverExceeded(acquired) == FALSE

\* if !QPSLeakyBucket.Acquire(1000)
RateExceeded(acquired) == ~acquired

\* promReaderTransToSQL(ctx, req): showTag is ctx.Value(CtxKeyShowTag{})
promReaderTransToSQL(showTag, queries, acquired, tagsErr, data, debug) ==
    IF RateExceeded(acquired)
    THEN Failed("unset", "Prometheus query rate exceeded!")
    ELSE IF Len(queries) < 1
    THEN Failed("unset", "len(req.Queries) == 0")
    ELSE LET q == queries[1]
             pm == parseMetric(q.name)
         IN  IF pm.panic THEN [NoTrans EXCEPT !.panic = TRUE]
             ELSE IF pm.err # "nil" THEN Failed(pm.prefixType, pm.err)
             ELSE Translated(q, pm, showTag, tagsErr, data, debug)

(***************************************************************************)
(* Remote-read translator: respTransToProm                                 *)
(***************************************************************************)
\* config.Cfg.Prometheus.SeriesLimit is at most the bound SeriesLimit. A
\* string is the sequence of its parts (a character, or a part that is never
\* split), so that two strings are equal when their sequences are.

\* a cell of a native tag column: a string, an int (s is its decimal form) or nil
Cell(kind, s) == [kind |-> kind, s |-> s]

Str(s) == Cell("string", s)

NilCell == Cell("nil", <<>>)

\* one row of result.Values: the timestamp column (seconds), the `tag` column,
\* the native tag columns in their order, and the metric cell (null, or value)
Row(time, tag, nat, null, value) ==
    [time |-> time, tag |-> tag, nat |-> nat, null |-> null, value |-> value]

\* a common.Result: the names of its columns, the value type of its metrics
\* column, its rows
Result(columns, metricsType, rows) ==
    [columns |-> columns, metricsType |-> metricsType, rows |-> rows]

NoResult == Result(<<>>, "", <<>>)

\* the last column for which test holds, 0 when there is none (lines 419-432:
\* every column is looked at, a later one replaces an earlier one)
LastIndex(columns, test(_)) ==
    IF \E i \in 1..Len(columns) : test(columns[i])
    THEN CHOOSE i \in 1..Len(columns) :
             test(columns[i]) /\ \A j \in (i + 1)..Len(columns) : ~test(columns[j])
    ELSE 0

IsTag(c) == c = NativeTagColumn

IsTagField(c) == ~IsTag(c) /\ HasPrefix(c, "tag.")

IsMetrics(c) == ~IsTag(c) /\ ~IsTagField(c) /\ HasPrefix(c, "metrics.")

IsTime(c) == ~IsTag(c) /\ ~IsTagField(c) /\ ~IsMetrics(c) /\ c = TimeColumn

TagIndex(columns) == LastIndex(columns, IsTag)

MetricsIndex(columns) == LastIndex(columns, IsMetrics)

TimeIndex(columns) == LastIndex(columns, IsTime)

\* metricsName = strings.TrimPrefix(tag, "metrics.")
MetricsName(columns) ==
    IF MetricsIndex(columns) = 0 THEN <<>>
    ELSE TrimPrefix(columns[MetricsIndex(columns)], "metrics.")

RECURSIVE NativeIndexes(_, _)
\* allDeepFlowNativeTags: the columns from the i-th on that are not the tag, the
\* metrics or the time column and not a tag.* field
NativeIndexes(columns, i) ==
    IF i > Len(columns) THEN <<>>
    ELSE IF \/ i \in {TagIndex(columns), MetricsIndex(columns), TimeIndex(columns)}
            \/ IsTagField(columns[i])
    THEN NativeIndexes(columns, i + 1)
    ELSE <<i>> \o NativeIndexes(columns, i + 1)

\* strconv.Itoa of a column index
Itoa(n) ==
    CASE n = 0 -> <<"0">> [] n = 1 -> <<"1">> [] n = 2 -> <<"2">> [] n = 3 -> <<"3">>
      [] n = 4 -> <<"4">> [] n = 5 -> <<"5">> [] n = 6 -> <<"6">> [] n = 7 -> <<"7">>
      [] n = 8 -> <<"8">> [] OTHER -> <<"9">>

\* getValue: the string of a cell, "" for nil
getValue(value) == IF value.kind = "nil" THEN <<>> ELSE value.s

\* isZero of a native tag cell: "", "{}", 0 and nil
isZero(value) ==
    CASE value.kind = "string" -> value.s \in {<<>>, <<"{}">>}
      [] value.kind = "int" -> value.s = <<"0">>
      [] OTHER -> TRUE

RECURSIVE IdxValues(_, _, _)
\* strings.Join(tagsStrList, "-"): strconv.Itoa(idx) and getValue(values[idx])
\* for every native tag column from the k-th on; idx counts columns from 0
IdxValues(idxs, nat, k) ==
    IF k > Len(idxs) THEN <<>>
    ELSE (IF k > 1 THEN <<"-">> ELSE <<>>)
             \o Itoa(idxs[k] - 1) \o <<"-">> \o getValue(nat[k])
             \o IdxValues(idxs, nat, k + 1)

\* deepflowNativeTagString: the `tag` JSON followed by the idx-value pairs
SeriesKey(columns, row) ==
    (IF TagIndex(columns) > 0 THEN <<row.tag>> ELSE <<>>)
        \o IdxValues(NativeIndexes(columns, 1), row.nat, 1)

\* json.Unmarshal of the `tag` column
TagMap(promTagJson) ==
    CASE promTagJson = "{job:a}" -> {<<<<"job">>, <<"a">>>>}
      [] promTagJson = "{host.name:b}" -> {<<<<"host", ".", "name">>, <<"b">>>>}
      [] OTHER -> {}

\* strings.ReplaceAll of ".", "-" and "/" by "_", part by part
FormatPart(s) ==
    CASE s \in {".", "-", "/"} -> "_"
      [] s = "k8s.label." -> "k8s_label_"
      [] s = "cloud.tag." -> "cloud_tag_"
      [] OTHER -> s

\* formatTagName: ".", "-" and "/" become "_"
formatTagName(tagName) == [i \in DOMAIN tagName |-> FormatPart(tagName[i])]

appendDeepFlowPrefix(tag) == <<AutoTaggingPrefix>> \o tag

appendPrometheusPrefix(tag) == <<"tag_">> \o tag

\* the labels of a new series (lines 494-548), as the set of their pairs and
\* as the number of prompb.Label appended
SeriesLabels(prefix, r, row) ==
    LET idxs == NativeIndexes(r.columns, 1)
        hasTag == TagIndex(r.columns) > 0
        fromTag == IF ~hasTag THEN {}
                   ELSE IF prefix = "prefixTag"
                   THEN {<<appendPrometheusPrefix(l[1]), l[2]>> : l \in TagMap(row.tag)}
                   ELSE TagMap(row.tag)
        fromNative ==
            {<<IF hasTag /\ prefix = "prefixDeepFlow"
               THEN appendDeepFlowPrefix(formatTagName(r.columns[idxs[k]]))
               ELSE formatTagName(r.columns[idxs[k]]),
               getValue(row.nat[k])>> :
                 k \in {j \in 1..Len(idxs) : ~isZero(row.nat[j])}}
    IN  fromTag \cup fromNative \cup {<<<<"__name__">>, MetricsName(r.columns)>>}

\* index of key in keys, 0 when it is not there
IndexOf(keys, key) ==
    IF \E i \in 1..Len(keys) : keys[i] = key
    THEN CHOOSE i \in 1..Len(keys) : keys[i] = key
    ELSE 0

LimitIgnored(count, limit) == FALSE

\* if len(seriesIndexMap) >= config.Cfg.Prometheus.SeriesLimit
LimitReached(count, limit) == count >= limit

RECURSIVE FirstPass(_, _, _, _, _, _)
\* lines 461-556 from row i on: keys are the series keys admitted so far (in
\* the order of seriesArray), labels their labels, index the sampleSeriesIndex
\* (1-based, -1 for a row over the limit)
FirstPass(prefix, r, limit, i, acc, index) ==
    IF i > Len(r.rows) THEN [keys |-> acc.keys, labels |-> acc.labels, index |-> index]
    ELSE LET row == r.rows[i]
             key == SeriesKey(r.columns, row)
             at == IndexOf(acc.keys, key)
         IN  IF at > 0
             THEN FirstPass(prefix, r, limit, i + 1, acc, Append(index, at))
             ELSE IF LimitReached(Len(acc.keys), limit)
             THEN FirstPass(prefix, r, limit, i + 1, acc, Append(index, -1))
             ELSE FirstPass(prefix, r, limit, i + 1,
                            [keys |-> Append(acc.keys, key),
                             labels |-> Append(acc.labels, SeriesLabels(prefix, r, row))],
                            Append(index, Len(acc.keys) + 1))

\* a prompb.Sample; a float64 is counted in halves
Sample(timestamp, value) == [Timestamp |-> timestamp, Value |-> value]

TimestampOfRow(time) == time * 1000

DecodedAsIs(metricsType, value) == value

\* float64(values[metricsIndex].(int)) for an Int column, the float64 itself
\* (already in halves) for a Float64 column
Decoded(metricsType, value) == IF metricsType = "Int" THEN 2 * value ELSE value

ForwardScan(n, i) == n - i + 1

\* the reverse scan visits the rows len-1 .. 0: the i-th row visited
ReverseScan(n, i) == i

NullAsZero(null) == FALSE

\* if values[metricsIndex] == nil { continue }
NullSkipped(null) == null

RECURSIVE SecondPass(_, _, _, _)
\* lines 559-591 from row i down to the first: the samples per series, or the
\* error of an unknown metrics type
SecondPass(r, index, i, samples) ==
    IF i < 1 THEN [err |-> "nil", samples |-> samples]
    ELSE LET row == r.rows[ReverseScan(Len(r.rows), i)]
             s == index[ReverseScan(Len(r.rows), i)]
         IN  IF s = -1 \/ NullSkipped(row.null)
             THEN SecondPass(r, index, i - 1, samples)
             ELSE IF r.metricsType \notin {"Int", "Float64"}
             THEN [err |-> "Unknown metrics type", samples |-> samples]
             ELSE SecondPass(r, index, i - 1,
                      [samples EXCEPT ![s] =
                           Append(@, Sample(TimestampOfRow(row.time),
                                            Decoded(r.metricsType, row.value)))])

\* a prompb.TimeSeries
TimeSeries(labels, samples) == [Labels |-> labels, Samples |-> samples]

\* what respTransToProm returned, and the SeriesLimit it read
Resp(err, timeseries, index, limit) ==
    [err |-> err, Timeseries |-> timeseries, index |-> index, limit |-> limit]

NoResp == Resp("nil", <<>>, <<>>, 0)

\* respTransToProm(ctx, result): prefix is ctx.Value(ctxKeyPrefixType{}),
\* limit is config.Cfg.Prometheus.SeriesLimit
respTransToProm(prefix, r, limit) ==
    LET first == FirstPass(prefix, r, limit, 1, [keys |-> <<>>, labels |-> <<>>], <<>>)
        second == SecondPass(r, first.index, Len(r.rows),
                             [s \in 1..Len(first.keys) |-> <<>>])
    IN  IF MetricsIndex(r.columns) = 0 \/ TimeIndex(r.columns) = 0
        THEN Resp("metricsIndex, timeIndex get failed", <<>>, <<>>, limit)
        ELSE IF second.err # "nil"
        THEN Resp(second.err, <<>>, <<>>, limit)
        ELSE Resp("nil",
                  [s \in 1..Len(first.keys) |->
                      TimeSeries(first.labels[s], second.samples[s])],
                  first.index, limit)

(***************************************************************************)
(* Remote-read translator: requests, answers and steps                     *)
(***************************************************************************)
\* a prompb.LabelMatcher other than the one named __name__
Matcher(name, type, value) == [Name |-> name, Type |-> type, Value |-> value]

\* a prompb.Query: name is the value of its __name__ matcher split at "__",
\* extra its other matchers, the rest are q.Hints and q.EndTimestampMs
Query(name, extra, startMs, endMs, endTimestampMs, stepMs, grouping, by, func) ==
    [name |-> name, extra |-> extra, StartMs |-> startMs, EndMs |-> endMs,
     EndTimestampMs |-> endTimestampMs, StepMs |-> stepMs, Grouping |-> grouping,
     By |-> by, Func |-> func]

StepValues == {0, 500, 2000}

ExtraMatchers ==
    { <<>>,
      <<Matcher(<<"tag_", "job">>, "EQ", "a")>>,
      <<Matcher(<<"df_", "k8s_label_", "app">>, "RE", "a")>>,
      <<Matcher(<<"pod">>, "BAD", "a")>> }

Groupings == { <<>>, << <<"pod">> >>, << <<"k8s_label_", "app">>, <<"pod">> >> }

Funcs == {"", "sum", "count_values", "group", "stdvar", "series"}

\* StartMs, EndMs and EndTimestampMs - EndMs: an instant query, a range query
\* and a range query that starts within a second; the query ends where its
\* hints end or half a second later
Windows ==
    {<<0, 0>>, <<0, 1000 * MaxSec>>, <<500, 1000 * MaxSec>>} \X {0, 500}

Queries ==
    { Query(n, x, w[1][1], w[1][2], w[1][2] + w[2], st, g, by, f) :
        n \in MetricNames, x \in ExtraMatchers, w \in Windows, st \in StepValues,
        g \in Groupings, by \in BOOLEAN, f \in Funcs }

\* the other supported aggregations, each for an instant query by pod
MoreFuncs == {"avg", "min", "max", "stddev", "count"}

MoreQueries ==
    { Query(n, <<>>, 0, 0, 0, 0, << <<"pod">> >>, TRUE, f) :
        n \in MetricNames, f \in MoreFuncs }

\* req.Queries: none, one, or two of them
Requests ==
    {<<>>} \cup {<<q>> : q \in Queries \cup MoreQueries}
        \cup { <<Query(n, <<>>, 0, 0, 0, 0, << <<"pod">> >>, TRUE, "sum"),
                 Query(<<"up">>, <<>>, 0, 0, 0, 0, <<>>, FALSE, "")>> :
                  n \in MetricNames }

\* what GetTagDescriptions may answer
TagDatas ==
    { <<>>,
      <<TagDescription("pod", "pod_0", "pod_1", "string"),
        TagDescription("time", "time", "time", "timestamp"),
        TagDescription("labels", "labels", "labels", "map")>> }

Request(showTag, queries) == [showTag |-> showTag, queries |-> queries]

NoRequest == Request(FALSE, <<>>)

\* the name of a column of the answer: the alias of the projection, or the
\* name between its backquotes
ColumnName(c) ==
    CASE c.kind = "time" -> TimeColumn
      [] c.kind = "tag" -> NativeTagColumn
      [] c.kind = "tagfield" -> <<"tag.">> \o c.name
      [] c.kind = "metric" -> <<"metrics.">> \o c.name
      [] OTHER -> c.name

\* result.Columns of the answer to a SQL
ColumnsOf(sql) == [i \in 1..Len(sql.select) |-> ColumnName(sql.select[i])]

HasTagColumn(sql) == TagIndex(ColumnsOf(sql)) > 0

NativeCount(sql) == Len(NativeIndexes(ColumnsOf(sql), 1))

TagJsons == {"{job:a}", "{host.name:b}"}

NativeValues == {Str(<<"x">>), Str(<<>>)}

MetricsTypes == {"Int", "String"}

\* the rows a SQL may be answered with: every row passes the time filter (the
\* first and the last second that pass it are taken; the native tags vary
\* where they alone tell the series apart)
RowsOf(sql) ==
    { Row(t, tag, [k \in 1..NativeCount(sql) |-> v], null, 1) :
        t \in {u \in {sql.where[1].ge, sql.where[1].le} :
                   sql.where[1].ge <= u /\ u <= sql.where[1].le},
        tag \in IF HasTagColumn(sql) THEN TagJsons ELSE {""},
        v \in IF NativeCount(sql) = 0 \/ HasTagColumn(sql) THEN {Str(<<"x">>)}
               ELSE NativeValues,
        null \in BOOLEAN }

\* ORDER BY timestamp desc
IsDescending(rows) ==
    \A i \in 1..(Len(rows) - 1) : rows[i].time >= rows[i + 1].time

Answers(sql) ==
    { rows \in UNION { [1..n -> RowsOf(sql)] : n \in 0..MaxRows } :
        IsDescending(rows) }

\* the SQL as the querier reads it here: the columns and the time filter
Sent(sql) ==
    SQL([i \in 1..Len(sql.select) |->
            Column(sql.select[i].kind, "", 0, "", sql.select[i].name)],
        NoTable, <<sql.where[1]>>, <<>>, "")

\* the request after translation: what the later steps read of it
Window(r) ==
    IF r.queries = <<>> THEN NoRequest
    ELSE Request(FALSE, <<Query(NoName, <<>>, r.queries[1].StartMs, r.queries[1].EndMs,
                                 r.queries[1].EndTimestampMs, 0, <<>>, FALSE, "")>>)

QueryInit ==
    /\ bucket = BucketCap
    /\ qpc = "idle"
    /\ req = NoRequest
    /\ trans = NoTrans
    /\ result = NoResult
    /\ resp = NoResp

QueryAtRest == QueryInit

\* the leaky bucket admits requests again (seen when the next request arrives)
Refill ==
    /\ qpc = "idle"
    /\ bucket < BucketCap
    /\ bucket' = bucket + 1
    /\ UNCHANGED <<qpc, req, trans, result, resp>>
    /\ UNCHANGED exceptQuery

\* a remote-read request arrives and promReaderTransToSQL runs on it
Translate(showTag, queries, tagsErr, data, debug) ==
    LET acquired == bucket > 0
        out == promReaderTransToSQL(showTag, queries, acquired, tagsErr, data, debug)
    IN  /\ qpc = "idle"
        /\ bucket' = IF acquired THEN bucket - 1 ELSE bucket
        /\ req' = Request(showTag, queries)
        /\ trans' = out
        /\ qpc' = IF out.panic THEN "panic" ELSE "translated"
        /\ UNCHANGED <<result, resp>>
        /\ UNCHANGED exceptQuery

\* the handler returns the error of the translation
ReturnError ==
    /\ qpc = "translated"
    /\ trans.err # "nil"
    /\ qpc' = "idle"
    /\ req' = NoRequest
    /\ trans' = NoTrans
    /\ UNCHANGED <<bucket, result, resp>>
    /\ UNCHANGED exceptQuery

\* the handler hands the SQL to the querier
Submit ==
    /\ qpc = "translated"
    /\ trans.err = "nil"
    /\ qpc' = "submitted"
    /\ req' = Window(req)
    /\ trans' = [NoTrans EXCEPT !.ctx = trans.ctx, !.sql = Sent(trans.sql)]
    /\ UNCHANGED <<bucket, result, resp>>
    /\ UNCHANGED exceptQuery

\* the querier answers the SQL
Execute(rows, metricsType) ==
    /\ qpc = "submitted"
    /\ qpc' = "queried"
    /\ result' = Result(ColumnsOf(trans.sql), metricsType, rows)
    /\ trans' = [NoTrans EXCEPT !.ctx = trans.ctx]
    /\ UNCHANGED <<bucket, req, resp>>
    /\ UNCHANGED exceptQuery

\* respTransToProm builds the response; limit is the SeriesLimit configured
Respond(limit) ==
    /\ qpc = "queried"
    /\ resp' = respTransToProm(trans.ctx, result, limit)
    /\ qpc' = "responded"
    /\ UNCHANGED <<bucket, req, trans, result>>
    /\ UNCHANGED exceptQuery

\* the response is written out
Done ==
    /\ qpc = "responded"
    /\ qpc' = "idle"
    /\ req' = NoRequest
    /\ trans' = NoTrans
    /\ result' = NoResult
    /\ resp' = NoResp
    /\ UNCHANGED bucket
    /\ UNCHANGED exceptQuery

QueryNext ==
    \/ Refill
    \/ /\ qpc = "idle"
       /\ \E showTag \in BOOLEAN, queries \in Requests,
             debug \in BOOLEAN :
            \E tagsErr \in IF showTag THEN BOOLEAN ELSE {FALSE},
               data \in IF showTag THEN TagDatas ELSE {<<>>} :
                 Translate(showTag, queries, tagsErr, data, debug)
    \/ ReturnError
    \/ Submit
    \/ /\ qpc = "submitted"
       /\ \E rows \in Answers(trans.sql), metricsType \in MetricsTypes :
            Execute(rows, metricsType)
    \/ \E limit \in 1..SeriesLimit : Respond(limit)
    \/ Done

(***************************************************************************)
(* Cluster-aware writer: WriteBatch after getOrCreateCkwriter, GetCounter  *)
(***************************************************************************)
WriteErrAndCount(c, n) == [c EXCEPT !.WriteErr = @ + 1, !.MetricsCount = @ + n]

\* atomic.AddInt64(&w.counter.WriteErr, 1)
WriteErrAdded(c, n) == [c EXCEPT !.WriteErr = @ + 1]

\* atomic.AddInt64(&w.counter.MetricsCount, int64(len(batch)))
MetricsCounted(c, n) == [c EXCEPT !.MetricsCount = @ + n]

\* if w.counter.WriteErr == 0 { log.Warningf("get writer failed: %s", err) }
FirstError(c) == c.WriteErr = 0

\* the operand &w.counter.WriteErr or &w.counter.MetricsCount of the
\* atomic.AddInt64 is evaluated: the pointer w.counter is read, some time
\* before the addition is made
LoadCounter(p) ==
    /\ wpc[p] = "finish"
    /\ loc[p].op = "WriteBatch"
    /\ ~Crashed
    /\ held[p] = "none"
    /\ held' = [held EXCEPT ![p] = "current"]
    /\ UNCHANGED <<wvars, returned>>
    /\ UNCHANGED exceptCounter

\* the Counter the pointer read by WriteBatch addresses, and the addition
AddressedCounter(p) == IF held[p] = "old" THEN returned[p] ELSE counter[p]

AddInt64(p, sum) ==
    IF held[p] = "old"
    THEN /\ returned' = [returned EXCEPT ![p] = sum]
         /\ UNCHANGED counter
    ELSE /\ counter' = [counter EXCEPT ![p] = sum]
         /\ UNCHANGED returned

\* WriteBatch once getOrCreateCkwriter returned: on an error WriteErr is
\* counted and the batch dropped; otherwise the flow tags of batch[0] are
\* recorded, the samples counted and Put into the writer
WriteBatchReturn(p) ==
    /\ wpc[p] = "finish"
    /\ loc[p].op = "WriteBatch"
    /\ ~Crashed
    /\ IF loc[p].err # "nil"
       THEN /\ warnings' = [warnings EXCEPT ![p] =
                   IF FirstError(counter[p]) /\ @ < WarningCap(p) THEN @ + 1 ELSE @]
            /\ AddInt64(p, WriteErrAdded(AddressedCounter(p), loc[p].n))
            /\ UNCHANGED <<tagCache, lastPut>>
       ELSE /\ tagCache' = [tagCache EXCEPT ![p] = @ \cup {loc[p].m}]
            /\ AddInt64(p, MetricsCounted(AddressedCounter(p), loc[p].n))
            /\ lastPut' = PutBatch(loc[p].writer, loc[p].batch)
            /\ warnings' = [warnings EXCEPT ![p] = 0]
    /\ wpc' = [wpc EXCEPT ![p] = "idle"]
    /\ loc' = [loc EXCEPT ![p] = NoCall]
    /\ held' = [held EXCEPT ![p] = "none"]
    /\ UNCHANGED <<ckWriters, mutex, running, tableExists, localCols, distCols,
                   peerTable, peerCols, conn>>
    /\ UNCHANGED exceptCounter

\* GetCounter: counter, w.counter = w.counter, &Counter{}
GetCounter(p) ==
    /\ wpc[p] \notin {"new", "dead"}
    /\ loc[p].op # "InitTable"
    /\ ~Crashed
    /\ counter[p] # ZeroCounter
    /\ counter' = [counter EXCEPT ![p] = ZeroCounter]
    /\ IF held[p] = "current"
       THEN /\ held' = [held EXCEPT ![p] = "old"]
            /\ returned' = [returned EXCEPT ![p] = counter[p]]
       ELSE UNCHANGED <<held, returned>>
    /\ UNCHANGED <<ckWriters, mutex, running, lastPut, tableExists, localCols,
                   distCols, peerTable, peerCols, wpc, conn, tagCache, loc>>
    /\ UNCHANGED <<warnings, exceptCounter>>

WriterNext ==
    \/ \E p \in Writers, dialOk \in BOOLEAN, dbErr \in {"nil", "err"} :
          InitTable(p, dialOk, dbErr)
    \/ \E p \in Writers : InitTableReturn(p)
    \/ \E p \in Writers, m \in Metrics :
          \E batch \in Batches(p) : WriteBatch(p, batch, m)
    \/ \E p \in Writers : Lock(p)
    \/ \E p \in Writers, dialOk \in BOOLEAN : CheckAgain(p, dialOk)
    \/ \E p \in Writers, ok \in BOOLEAN : NewCKWriter(p, ok)
    \/ \E p \in Writers, r \in {"ok", "queryErr", "scanErr"} : GetCurrentCount(p, r)
    \/ \E p \in Writers, r \in {"ok", "exists", "fail"} : AddAppLabelColumn(p, r)
    \/ \E p \in Writers, endpointsOk \in BOOLEAN, okPeers \in SUBSET Peers :
          createTableOnCluster(p, endpointsOk, okPeers)
    \/ \E p \in Writers, r \in {"ok", "endpointsErr", "connErr", "execErr"},
          upTo \in 0..MAX_APP_LABEL_COLUMN_INDEX :
          addAppLabelColumnsOnCluster(p, r, upTo)
    \/ \E p \in Writers : RunAndPublish(p)
    \/ \E p \in Writers : WriteBatchReturn(p)
    \/ \E p \in Writers : GetCounter(p)

\* the cache side does not take part
CacheAtRest == CacheInit

\* NewPrometheusWriter has not run yet, the cache is not started
InitWriter == WriterInit /\ CacheAtRest /\ QueryAtRest /\ ExtrasAtRest

SpecWriter == InitWriter /\ [][WriterNext]_vars

\* NewPrometheusWriter is called for the first decoder only
InitAlone ==
    /\ \E k \in -1..(MAX_APP_LABEL_COLUMN_INDEX - 1) :
          /\ tableExists = (k >= 0)
          /\ localCols = 1..k
          /\ distCols = 1..k
    /\ ckWriters = [w \in WriterSlots |-> NoWriter]
    /\ mutex = NoOne
    /\ running = {}
    /\ lastPut = NoPut
    /\ peerTable = [n \in Peers |-> FALSE]
    /\ peerCols = [n \in Peers |-> {}]
    /\ wpc = [p \in Writers |-> IF p = 1 THEN "new" ELSE "dead"]
    /\ conn = [p \in Writers |-> FALSE]
    /\ counter = [p \in Writers |-> ZeroCounter]
    /\ tagCache = [p \in Writers |-> {}]
    /\ warnings = [p \in Writers |-> 0]
    /\ loc = [p \in Writers |-> NoCall]
    /\ held = [p \in Writers |-> "none"]
    /\ returned = [p \in Writers |-> ZeroCounter]
    /\ CacheAtRest
    /\ QueryAtRest
    /\ ExtrasAtRest

SpecAlone == InitAlone /\ [][WriterNext]_vars

\* the same writer with the read of w.counter apart from the addition
LoadNext ==
    \/ WriterNext
    \/ \E p \in Writers : LoadCounter(p)

SpecLoad == InitAlone /\ [][LoadNext]_vars

\* GetSingleton has built the cache, no writer exists
InitCache == CacheInit /\ WriterAtRest /\ QueryAtRest /\ ExtrasAtRest

SpecCache == InitCache /\ [][CacheNext]_vars

\* Start is invoked twice on the singleton: the second invocation may come at
\* any moment, before or after the first one has returned
InitAgain ==
    /\ canRefresh = 0
    /\ cpc = [p \in Callers |-> IF p \in {StartCaller, AgainCaller} THEN "start"
                                 ELSE IF p \in OtherCallers THEN "idle"
                                 ELSE "unborn"]
    /\ egRunAhead = [p \in Callers |-> NewGroup(AheadCaches)]
    /\ eg = [p \in Callers |-> NewGroup(LaterCaches)]
    /\ refreshErr = [p \in Callers |-> "none"]
    /\ ctxDone = FALSE
    /\ WriterAtRest
    /\ QueryAtRest
    /\ ExtrasAtRest

SpecAgain == InitAgain /\ [][AgainNext]_vars

\* the statsd counter of the querier alone
InitStat ==
    /\ StatInit
    /\ CacheAtRest
    /\ WriterAtRest
    /\ QueryAtRest
    /\ DebugAtRest
    /\ CleanerAtRest
    /\ JSONAtRest

SpecStat == InitStat /\ [][StatNext]_vars

\* the resource cleaner alone, on any of the tables
InitCleaner ==
    /\ CleanerInit
    /\ CacheAtRest
    /\ WriterAtRest
    /\ QueryAtRest
    /\ DebugAtRest
    /\ StatAtRest
    /\ JSONAtRest

SpecCleaner == InitCleaner /\ [][CleanerNext]_vars

\* CheckJSONParam alone, on any of the documents and types
InitJSON ==
    /\ JSONInit
    /\ CacheAtRest
    /\ WriterAtRest
    /\ QueryAtRest
    /\ DebugAtRest
    /\ StatAtRest
    /\ CleanerAtRest

SpecJSON == InitJSON /\ [][CheckJSONParam]_vars

\* the cache refreshes while the debug endpoint is called
InitDebug ==
    CacheInit /\ DebugInit /\ WriterAtRest /\ QueryAtRest /\ StatAtRest
        /\ CleanerAtRest /\ JSONAtRest

SpecDebug == InitDebug /\ [][CacheNext \/ DebugNext]_vars

\* the remote-read translator alone, cache and writer at rest
InitQuery == QueryInit /\ CacheAtRest /\ WriterAtRest /\ ExtrasAtRest

SpecQuery == InitQuery /\ [][QueryNext]_vars

\* the columns respTransToProm may be handed: the answer of a sample db, of an
\* aggregated db with two native tags, of deepflow_system with a native tag,
\* and two answers that lack the metrics or the timestamp column
SampleColumns == <<TimeColumn, <<"metrics.", "up">>, NativeTagColumn>>

AppColumn == <<"k8s.label.", "app", ".", "io", "/", "my", "-", "name">>

GroupedColumns == <<TimeColumn, AppColumn, <<"pod">>, <<"metrics.", "up">>>>

DebugColumns == <<TimeColumn, <<"metrics.", "up">>, NativeTagColumn, <<"pod">>>>

NoMetricsColumns == <<TimeColumn, NativeTagColumn>>

NoTimeColumns == <<<<"metrics.", "up">>, NativeTagColumn>>

\* the `tag` JSON of a row: two maps, one of them with a dot in its key
RespondTagJsons == {"{job:a}", "{host.name:b}"}

\* the cells of the two native tags of a row: zero values, nil, and values
\* that hold the separator of the series key
RespondNatives ==
    { <<Str(<<"x">>), Str(<<>>)>>, <<Str(<<"x">>), Str(<<"{}">>)>>,
      <<Str(<<"x">>), Cell("int", <<"0">>)>>, <<Str(<<"x">>), NilCell>>,
      <<Str(<<"x">>), Str(<<"x", "-", "2", "-", "x">>)>>,
      <<Str(<<"x", "-", "2", "-", "x">>), Str(<<"x">>)>> }

\* the rows of an answer with the columns given, at most n of them, in
\* descending time; the rows with two native tags all carry a value
RespondRows(columns, n) ==
    LET rows == { Row(t, tag, nat, null, 1) :
                    t \in 0..MaxSec,
                    null \in IF columns = GroupedColumns THEN {FALSE} ELSE BOOLEAN,
                    tag \in CASE columns = DebugColumns -> {"{job:a}"}
                              [] TagIndex(columns) > 0 -> RespondTagJsons
                              [] OTHER -> {""},
                    nat \in CASE columns = GroupedColumns -> RespondNatives
                              [] columns = DebugColumns -> {<<Str(<<"x">>)>>, <<Str(<<>>)>>}
                              [] OTHER -> {<<>>} }
    IN  { r \in UNION { [1..k -> rows] : k \in 0..n } : IsDescending(r) }

\* the results and the prefix type of the context they arrive with
RespondInputs ==
    ({"prefixNone", "prefixTag"}
        \X { Result(SampleColumns, ty, rows) :
               ty \in {"Int", "Float64", "String"},
               rows \in RespondRows(SampleColumns, MaxRows) })
    \cup ({"prefixNone"}
        \X { Result(GroupedColumns, "Int", rows) :
               rows \in RespondRows(GroupedColumns, MaxRows) })
    \cup ({"prefixNone", "prefixDeepFlow"}
        \X { Result(DebugColumns, "Float64", rows) :
               rows \in RespondRows(DebugColumns, MaxRows) })
    \cup ({"prefixTag"}
        \X UNION { { Result(columns, "Int", rows) : rows \in RespondRows(columns, 1) } :
                     columns \in {NoMetricsColumns, NoTimeColumns} })

\* respTransToProm alone: the querier has answered, with any of the results
InitRespond ==
    /\ \E in \in RespondInputs :
          /\ trans = [NoTrans EXCEPT !.ctx = in[1]]
          /\ result = in[2]
    /\ bucket = BucketCap
    /\ qpc = "queried"
    /\ req = NoRequest
    /\ resp = NoResp
    /\ CacheAtRest
    /\ WriterAtRest
    /\ ExtrasAtRest

RespondNext ==
    \/ \E limit \in 1..SeriesLimit : Respond(limit)
    \/ Done

SpecRespond == InitRespond /\ [][RespondNext]_vars

Waiting(p) == cpc[p] \in {"select", "sleep"}

InRefresh(p) == cpc[p] \in {"ahead", "eg"}

\* from taking the token to putting it back
HoldsToken(p) == cpc[p] \in {"ahead", "eg", "put"}

\* every step of caller p inside tryRefresh, its refresh() and its goroutines
CallerStep(p) ==
    \/ TakeToken(p) \/ NoToken(p) \/ Wake(p) \/ WaitAhead(p) \/ WaitEg(p) \/ PutToken(p)
    \/ \E s \in AheadCaches, r \in {"nil", "err"} : AheadRefreshDone(p, s, r)
    \/ \E s \in LaterCaches, r \in {"nil", "err"} : LaterRefreshDone(p, s, r)

\* every goroutine that can take a step eventually takes one, every refresh
\* body returns, the ticker keeps ticking; other callers need not call
FairSpecCache ==
    /\ SpecCache
    /\ WF_vars(StartInject \/ StartReturn \/ CallerStep(StartCaller))
    /\ WF_vars(TickerTick \/ TickerStop \/ TickerReturn \/ CallerStep(TickerCaller))
    /\ \A p \in OtherCallers : WF_vars(OtherReturn(p) \/ CallerStep(p))

(***************************************************************************)
(* Properties of the ID cache                                              *)
(***************************************************************************)
\* C1: no two callers are inside refresh() at the same time, and a caller is
\* inside refresh() only while no other caller holds the token (has taken it
\* and not yet put it back).
C1_SingleFlight ==
    \A p, q \in Callers :
        p # q => ~(HoldsToken(p) /\ HoldsToken(q))

\* a caller found the slot empty and sleeps while another one runs refresh()
C1_Witness ==
    \E p, q \in Callers : p # q /\ InRefresh(p) /\ cpc[q] = "sleep"

\* C2 as stated: every call of tryRefresh eventually returns (having taken the
\* token and run refresh()).
C2_EveryCallReturns ==
    \A p \in Callers : (cpc[p] = "select") ~> (cpc[p] = "returned")

\* C2 as amended: a caller that took the token always puts it back (refresh()
\* and the call return), and no caller stays waiting while the token stays in
\* the slot.
C2_TokenComesBack ==
    /\ (\E p \in Callers : HoldsToken(p)) ~> (canRefresh = 1)
    /\ \A p \in Callers : []<>(~Waiting(p) \/ canRefresh = 0)

\* a caller that found the slot empty sleeps while the token is back
C2_Witness ==
    \E p \in Callers : cpc[p] = "sleep" /\ canRefresh = 1

\* C3: as soon as one of the six later sub-cache refreshes has been started,
\* the MetricName and the Label refresh have both returned.
C3_AheadFirst ==
    \A p \in Callers : Started(eg[p]) => Finished(egRunAhead[p])

\* the six are running after a failed run-ahead refresh
C3_Witness ==
    \E p \in Callers :
        /\ eg[p].st["Target"] = "running"
        /\ egRunAhead[p].err = "err"

\* C4: when refresh() returns, each of the eight sub-cache refreshes was
\* started and has returned, whichever of them failed.
C4_AllComplete ==
    \A p \in Callers :
        cpc[p] = "put" => Finished(egRunAhead[p]) /\ Finished(eg[p])

\* refresh() returned after a failure in the first phase, the six later
\* refreshes done without an error
C4_Witness ==
    \E p \in Callers :
        /\ cpc[p] = "put"
        /\ egRunAhead[p].err = "err"
        /\ Finished(eg[p])
        /\ eg[p].err = "nil"

(***************************************************************************)
(* Properties of the cluster-aware writer                                  *)
(***************************************************************************)
\* C5: the app_label_value_id_* columns of samples and samples_local only
\* grow, are always numbered 1..K without a gap, and a published writer of
\* width w implies K >= w in the catalog.
C5_MonotonicSchema ==
    [][ /\ localCols \subseteq localCols'
        /\ distCols \subseteq distCols'
        /\ (tableExists => tableExists')
        /\ distCols' = 1..Cardinality(distCols')
        /\ localCols' = 1..Cardinality(localCols')
        /\ \A w \in WriterSlots :
              ckWriters'[w] # NoWriter => Cardinality(distCols') >= w ]_vars

\* a creation has added two columns to both tables
C5_Witness ==
    \E p \in Writers : wpc[p] = "cluster" /\ Len(loc[p].alters) >= 4

\* the ALTER TABLE statements for the indices K + 1 .. w, local table first
ExpectedAlters(K, w) ==
    IF K >= w THEN <<>>
    ELSE [k \in 1..(2 * (w - K)) |->
             <<K + ((k + 1) \div 2), IF k % 2 = 1 THEN "local" ELSE "dist">>]

Statements(alters) == [k \in 1..Len(alters) |-> <<alters[k][1], alters[k][2]>>]

IsPrefix(s, t) == Len(s) <= Len(t) /\ \A k \in 1..Len(s) : s[k] = t[k]

\* C6: a creation that goes on after the catalog reported K columns has
\* issued exactly the ALTERs for K+1..w on both tables (none when K >= w), in
\* order, none of them failed other than with "already exists", and no
\* creation is aborted by "already exists".
C6_WidenExactly ==
    \A p \in Writers :
        /\ wpc[p] = "alter" =>
              /\ IsPrefix(Statements(loc[p].alters),
                          ExpectedAlters(loc[p].cur, loc[p].count))
              /\ Len(loc[p].alters) < 2 * (loc[p].count - loc[p].cur)
        /\ wpc[p] \in {"cluster", "cluster2", "run"} =>
              Statements(loc[p].alters) = ExpectedAlters(loc[p].cur, loc[p].count)
        /\ \A k \in 1..Len(loc[p].alters) : loc[p].alters[k][3] \in {"ok", "exists"}
        /\ loc[p].err # "exists"

\* the writer is about to be started after a widening in which a column was
\* already there
C6_Witness ==
    \E p \in Writers :
        /\ wpc[p] = "run"
        /\ \E k \in 1..Len(loc[p].alters) : loc[p].alters[k][3] = "exists"

\* C7: a filled slot never changes, no two started writers have the same
\* width, a published writer was started, and it is published only when the
\* catalog has the columns of its width.
C7_PublishedOnce ==
    [][ /\ \A w \in WriterSlots :
              ckWriters[w] # NoWriter => ckWriters'[w] = ckWriters[w]
        /\ \A g, h \in running' : g.w = h.w => g = h
        /\ \A w \in WriterSlots :
              ckWriters'[w] # NoWriter =>
                  /\ ckWriters'[w] \in running'
                  /\ ckWriters'[w].w = w
                  /\ Cardinality(distCols') >= w ]_vars

\* a writer got the mutex for a width the other writer has published meanwhile
C7_Witness ==
    \E p \in Writers :
        wpc[p] = "locked" /\ getPrometheusCKWriters(loc[p].count) # NoWriter

\* C8: no call indexes prometheusCKWriters outside the array.
C8_IndexInArray ==
    \A p \in Writers : wpc[p] # "panic"

\* C9: once the local widening is done, whatever the peers answer, the next
\* steps are the start and the publication of the writer, returned without an
\* error.
C9_PeerErrorsAreWarnings ==
    [][ \A p \in Writers :
          /\ wpc[p] = "cluster" => wpc'[p] \in {"cluster", "cluster2"}
          /\ wpc[p] = "cluster2" => wpc'[p] \in {"cluster2", "run"}
          /\ (wpc[p] = "run" /\ wpc'[p] # "run") =>
                /\ wpc'[p] = "finish"
                /\ loc'[p].err = "nil"
                /\ loc'[p].writer = Handle(loc[p].count, p)
                /\ ckWriters'[loc[p].count] = loc'[p].writer
                /\ loc'[p].writer \in running' ]_vars

\* the writer is about to be started although both peer calls failed
C9_Witness ==
    \E p \in Writers : wpc[p] = "run" /\ loc[p].warn >= 2

\* C10: the step of WriteBatch after a failed getOrCreateCkwriter adds 1 to
\* WriteErr, leaves MetricsCount, the flow tags and the writers' input alone,
\* and returns.
C10_ErrorCounted ==
    [][ \A p \in Writers :
          (/\ wpc[p] = "finish"
           /\ loc[p].op = "WriteBatch"
           /\ loc[p].err # "nil"
           /\ wpc'[p] # "finish") =>
              /\ wpc'[p] = "idle"
              /\ counter'[p].WriteErr = counter[p].WriteErr + 1
              /\ counter'[p].MetricsCount = counter[p].MetricsCount
              /\ tagCache' = tagCache
              /\ lastPut' = lastPut ]_vars

\* a WriteBatch whose getOrCreateCkwriter failed has returned
C10_Witness ==
    \E p \in Writers :
        /\ wpc[p] = "idle"
        /\ counter[p].WriteErr = 1
        /\ counter[p].MetricsCount = 0
        /\ tagCache[p] = {}
\* C11: a creation that ends because the catalog query or an ALTER TABLE
\* failed leaves writer p without its cached connection and the slot of the
\* width empty.
C11_ConnDroppedOnError ==
    [][ \A p \in Writers :
          (/\ wpc[p] \in {"count", "alter"}
           /\ wpc'[p] = "finish"
           /\ loc'[p].err \in {"queryErr", "fail"}) =>
              /\ ~conn'[p]
              /\ ckWriters'[loc[p].count] = NoWriter ]_vars
(***************************************************************************)
(* Remote-read translator: claims                                          *)
(***************************************************************************)
\* the query promReaderTransToSQL works on
Q == req.queries[1]

RateError == "Prometheus query rate exceeded!"

\* promReaderTransToSQL has returned for a request the bucket admitted
Admitted == qpc = "translated" /\ req.queries # <<>> /\ trans.err # RateError

Succeeded == trans.err = "nil"

\* the metric name routes the query to a native metrics db
RoutedNative == Len(Q.name) >= 3 /\ Q.name[1] \in {"flow_log", "flow_metrics"}

\* C12: when the leaky bucket refuses the token, promReaderTransToSQL fails
\* with "Prometheus query rate exceeded!", returns no SQL and the caller's
\* context, and nothing else happens: no parsing (so no panic), no token taken.
C12_RateExceeded ==
    [][ (qpc = "idle" /\ qpc' # "idle" /\ bucket = 0) =>
            /\ trans' = Failed("unset", RateError)
            /\ trans'.sql = NoSQL
            /\ qpc' = "translated"
            /\ bucket' = bucket ]_vars

C12_Witness ==
    /\ qpc = "translated"
    /\ trans.err = RateError
    /\ req.showTag
    /\ req.queries # <<>>
    /\ Q.name = <<"flow_log", "l7_flow_log">>

WithoutError == "not support for 'without' clause for aggregation"

\* what C13 says of a request, whatever the context
GroupingRequired ==
    /\ Succeeded => (Q.Grouping # <<>> /\ Q.By)
    /\ Q.Grouping = <<>> => (trans.err = "unknown series" /\ trans.sql = NoSQL)
    /\ (Q.Grouping # <<>> /\ ~Q.By) => (trans.err = WithoutError /\ trans.sql = NoSQL)

\* C13 as stated: a query routed to a native metrics db is translated only if
\* its hints carry a non-empty Grouping with By = true; an empty Grouping fails
\* with "unknown series", By = false with the 'without' error, and no SQL.
C13_GroupingRequired == (Admitted /\ RoutedNative) => GroupingRequired

\* C13 amended: the same, for requests whose context is not the show-tag
\* context of a series lookup (with that flag the hints are not looked at).
C13_GroupingRequiredUnlessShowTag ==
    (Admitted /\ RoutedNative /\ ~req.showTag) => GroupingRequired

C13_Witness ==
    /\ Admitted /\ RoutedNative /\ ~req.showTag
    /\ Q.Grouping # <<>> /\ ~Q.By
    /\ trans.err = WithoutError

\* the names aggFunctions maps to a querier function
SupportedFuncs ==
    {"sum", "avg", "count", "min", "max", "group", "stddev", "count_values"}

ValidGrouping == Q.Grouping # <<>> /\ Q.By

UnsupportedFails ==
    /\ trans.err = "aggregation operator: %s is not supported yet"
    /\ trans.errArg = Q.Func
    /\ trans.sql = NoSQL

StepProjection ==
    [kind |-> "time", fn |-> "time", sec |-> Q.StepMs \div 1000, col |-> "time",
     name |-> <<"timestamp">>]

UnixProjection ==
    [kind |-> "time", fn |-> "toUnixTimestamp", sec |-> 0, col |-> "time",
     name |-> <<"timestamp">>]

\* C15 as stated: for every translated query and every target db the time
\* projection is time(time, StepMs/1000) when StepMs > 0, toUnixTimestamp(time)
\* otherwise.
C15_StepAlignment ==
    (Admitted /\ Succeeded) =>
        trans.sql.select[1] = IF Q.StepMs > 0 THEN StepProjection ELSE UnixProjection

\* C15 amended: the step projection is used when StepMs > 0 and the query is
\* an aggregated one (a native metrics db, no show-tag context); every other
\* translated query keeps toUnixTimestamp(time), whatever its StepMs.
C15_StepAlignmentOfAggregated ==
    (Admitted /\ Succeeded) =>
        trans.sql.select[1] =
            IF Q.StepMs > 0 /\ RoutedNative /\ ~req.showTag
            THEN StepProjection ELSE UnixProjection

C15_Witness ==
    /\ Admitted /\ Succeeded /\ RoutedNative /\ ~req.showTag
    /\ Q.StepMs = 2000
    /\ trans.sql.select[1].fn = "time"
    /\ trans.sql.select[1].sec = 2

\* C16: a SQL with a GROUP BY has the timestamp expression, aliased timestamp,
\* first in its projection; its GROUP BY starts with timestamp, goes on with the
\* grouping labels in the order of the request, and every grouping label is
\* projected too.
C16_GroupByShape ==
    (Admitted /\ Succeeded /\ trans.sql.groupBy # <<>>) =>
        /\ trans.sql.select[1].kind = "time"
        /\ trans.sql.select[1].name = <<"timestamp">>
        /\ trans.sql.groupBy[1] = <<"timestamp">>
        /\ Len(trans.sql.groupBy) >= 1 + Len(Q.Grouping)
        /\ \A i \in 1..Len(Q.Grouping) :
             /\ trans.sql.groupBy[i + 1] = convertToQuerierAllowedTagName(Q.Grouping[i])
             /\ \E j \in 2..Len(trans.sql.select) :
                  /\ trans.sql.select[j].kind = "label"
                  /\ trans.sql.select[j].name = trans.sql.groupBy[i + 1]

C16_Witness ==
    /\ Admitted /\ Succeeded
    /\ Len(Q.Grouping) = 2
    /\ Q.Func = "count_values"
    /\ Len(trans.sql.groupBy) = 4
    /\ trans.sql.groupBy[2] = <<"k8s.label.", "app">>

\* the metric column of a translated query
MetricOf(sql) ==
    sql.select[CHOOSE j \in 1..Len(sql.select) : sql.select[j].kind = "metric"]

Responded == qpc = "responded" /\ resp.err = "nil"

KeyOfRow(i) == SeriesKey(result.columns, result.rows[i])

\* two rows of one series that carry a value for the same second
SameSecondTwice ==
    \E i, j \in 1..Len(result.rows) :
        /\ i < j
        /\ KeyOfRow(i) = KeyOfRow(j)
        /\ result.rows[i].time = result.rows[j].time
        /\ ~result.rows[i].null /\ ~result.rows[j].null

\* C18 as stated: the rows being ordered by timestamp descending, the samples
\* of every series of the response are sorted strictly ascending by timestamp.
C18_StrictlyAscending ==
    Responded =>
        \A s \in 1..Len(resp.Timeseries) :
            \A i, j \in 1..Len(resp.Timeseries[s].Samples) :
                i < j => resp.Timeseries[s].Samples[i].Timestamp
                             < resp.Timeseries[s].Samples[j].Timestamp

\* What the reverse scan does give: the samples of every series are sorted
\* ascending by timestamp, and strictly so unless two rows of the series carry
\* a value for the same second.
C18_Ascending ==
    Responded =>
        \A s \in 1..Len(resp.Timeseries) :
            \A i, j \in 1..Len(resp.Timeseries[s].Samples) :
                i < j =>
                    /\ resp.Timeseries[s].Samples[i].Timestamp
                           <= resp.Timeseries[s].Samples[j].Timestamp
                    /\ ~SameSecondTwice =>
                           resp.Timeseries[s].Samples[i].Timestamp
                               < resp.Timeseries[s].Samples[j].Timestamp

C18_Witness ==
    /\ Responded
    /\ Len(resp.Timeseries) = 1
    /\ Len(resp.Timeseries[1].Samples) = 3
    /\ resp.Timeseries[1].Samples[1].Timestamp = 0
    /\ resp.Timeseries[1].Samples[2].Timestamp = 2000
    /\ resp.Timeseries[1].Samples[3].Timestamp = 2000

\* the timestamps of the samples of the response
Timestamps ==
    UNION { {resp.Timeseries[s].Samples[i].Timestamp :
                 i \in 1..Len(resp.Timeseries[s].Samples)} :
            s \in 1..Len(resp.Timeseries) }

\* C19 as stated: the rows passing the generated time filter, the timestamp of
\* every sample lies within [StartMs, EndMs] of the request.
C19_WithinRequest ==
    Responded => \A t \in Timestamps : Q.StartMs <= t /\ t <= Q.EndMs

\* C19 amended: the timestamp of every sample lies within the whole seconds
\* of the filter: from StartMs rounded down to a second to EndMs rounded down
\* to a second, plus one second when EndTimestampMs is not a whole second.
C19_WithinFilter ==
    Responded =>
        \A t \in Timestamps :
            /\ (Q.StartMs \div 1000) * 1000 <= t
            /\ t <= ((Q.EndMs \div 1000)
                       + (IF Q.EndTimestampMs % 1000 > 0 THEN 1 ELSE 0)) * 1000

C19_Witness ==
    /\ Responded
    /\ Q.StartMs = 500
    /\ Q.EndMs = 1000
    /\ Timestamps = {0, 2000}

RECURSIVE FirstKeys(_, _)
\* the distinct series keys of the rows from the i-th on, in the order in
\* which they first occur, after those of seen
FirstKeys(i, seen) ==
    IF i > Len(result.rows) THEN seen
    ELSE IF \E k \in 1..Len(seen) : seen[k] = KeyOfRow(i)
    THEN FirstKeys(i + 1, seen)
    ELSE FirstKeys(i + 1, Append(seen, KeyOfRow(i)))

Min(a, b) == IF a < b THEN a ELSE b

\* the rows of a key that carry a value
ValuedRows(key) ==
    {i \in 1..Len(result.rows) : KeyOfRow(i) = key /\ ~result.rows[i].null}

\* C20: the response has the series of the first SeriesLimit distinct keys in
\* row order and no other; a row of a further key gives no sample, every row
\* of an admitted key that carries a value gives one, wherever it stands.
C20_SeriesLimit ==
    Responded =>
        LET keys == FirstKeys(1, <<>>)
        IN  /\ Len(resp.Timeseries) = Min(Len(keys), resp.limit)
            /\ \A s \in 1..Len(resp.Timeseries) :
                 /\ Len(resp.Timeseries[s].Samples) = Cardinality(ValuedRows(keys[s]))
                 /\ \A i \in ValuedRows(keys[s]) :
                      \E k \in 1..Len(resp.Timeseries[s].Samples) :
                          resp.Timeseries[s].Samples[k].Timestamp
                              = result.rows[i].time * 1000

C20_Witness ==
    /\ Responded
    /\ Len(result.rows) = 3
    /\ resp.limit = 1
    /\ Len(FirstKeys(1, <<>>)) > resp.limit
    /\ KeyOfRow(1) # KeyOfRow(2)
    /\ KeyOfRow(1) = KeyOfRow(3)
    /\ \A i \in 1..3 : ~result.rows[i].null
    /\ Len(resp.Timeseries) = resp.limit
    /\ Len(resp.Timeseries[1].Samples) = 2

\* the rows that respTransToProm admits: their key is one of the first
\* resp.limit distinct keys
AdmittedRows ==
    {i \in 1..Len(result.rows) :
        IndexOf(FirstKeys(1, <<>>), KeyOfRow(i)) \in 1..resp.limit}

\* C21: no two series of a response carry the same set of labels, also when
\* the rows differ only in zero-like values of their native tag columns.
C21_NoDuplicateLabels ==
    Responded =>
        \A s, t \in 1..Len(resp.Timeseries) :
            s # t => resp.Timeseries[s].Labels # resp.Timeseries[t].Labels

\* the samples of the response, series by series
AllSamples ==
    {<<s, k>> : s \in 1..Len(resp.Timeseries), k \in 1..MaxRows + 1} \cap
    UNION { {<<s, k>> : k \in 1..Len(resp.Timeseries[s].Samples)} :
              s \in 1..Len(resp.Timeseries) }

\* C22: a result without a metrics.* or a timestamp column is refused with an
\* error; otherwise an admitted row with a value and a column type other than
\* Int and Float64 gives an error and no response; otherwise every admitted
\* row with a value gives one sample, a null cell gives none, and the value is
\* the float64 of the Int (counted in halves: twice the int) or the Float64.
C22_MetricDecoding ==
    qpc = "responded" =>
        LET valued == {i \in AdmittedRows : ~result.rows[i].null}
        IN  IF ~(\E i \in 1..Len(result.columns) : HasPrefix(result.columns[i], "metrics."))
               \/ ~(\E i \in 1..Len(result.columns) : result.columns[i] = TimeColumn)
            THEN /\ resp.err = "metricsIndex, timeIndex get failed"
                 /\ resp.Timeseries = <<>>
            ELSE IF valued # {} /\ result.metricsType \notin {"Int", "Float64"}
            THEN /\ resp.err = "Unknown metrics type"
                 /\ resp.Timeseries = <<>>
            ELSE /\ resp.err = "nil"
                 /\ Cardinality(AllSamples) = Cardinality(valued)
                 /\ \A x \in AllSamples :
                      resp.Timeseries[x[1]].Samples[x[2]].Value
                          = IF result.metricsType = "Int" THEN 2 ELSE 1

C22_Witness ==
    /\ qpc = "responded"
    /\ result.metricsType = "Int"
    /\ Len(result.rows) = 3
    /\ result.rows[1].null /\ ~result.rows[2].null /\ ~result.rows[3].null
    /\ AdmittedRows = {1, 3}
    /\ Len(resp.Timeseries) = 1
    /\ Len(resp.Timeseries[1].Samples) = 1
    /\ resp.Timeseries[1].Samples[1].Value = 2

\* the strings of the native tag cells of a row
ValuesOfRow(i) == [k \in DOMAIN result.rows[i].nat |-> getValue(result.rows[i].nat[k])]

\* C28: two admitted rows are in one series exactly when they have the same
\* `tag` JSON and the same value (as a string) in every native tag column.
C28_SeriesOfRow ==
    Responded =>
        \A i, j \in AdmittedRows :
            (resp.index[i] = resp.index[j])
                <=> /\ result.rows[i].tag = result.rows[j].tag
                    /\ ValuesOfRow(i) = ValuesOfRow(j)

\* the names of the tags in the filter of the SQL, after the time filter
FilterNames == {trans.sql.where[i].col : i \in 2..Len(trans.sql.where)}

\* the names of the labels of the response
LabelNames ==
    UNION { {l[1] : l \in resp.Timeseries[s].Labels} : s \in 1..Len(resp.Timeseries) }

C27_FilterNormalised ==
    (qpc = "translated" /\ trans.err = "nil") =>
        \A name \in FilterNames : name = formatTagName(name)

C27_LabelsNormalised ==
    Responded => \A name \in LabelNames : name = formatTagName(name)

\* C27: no tag name of the SQL filter and no label name of the response holds
\* a ".", a "-" or a "/": each is what formatTagName makes of it.
C27_Normalised == C27_FilterNormalised /\ C27_LabelsNormalised

\* the function names of the querier
FunctionOf ==
    ("sum" :> "Sum" @@ "avg" :> "Avg" @@ "min" :> "Min" @@ "max" :> "Max" @@
     "stddev" :> "Stddev")

\* the metric is selected and grouped by under its own name
MetricGrouped ==
    /\ \E i \in 1..Len(trans.sql.select) : trans.sql.select[i] = LabelColumn(<<Q.name[3]>>)
    /\ \E i \in 1..Len(trans.sql.groupBy) : trans.sql.groupBy[i] = <<Q.name[3]>>

\* the metric expression of each supported Func, the error of a Count outside
\* flow_log, and the columns count_values adds
AggregationMapping ==
    /\ (Succeeded /\ Q.Func \in DOMAIN FunctionOf) =>
          MetricOf(trans.sql) = MetricColumn(FunctionOf[Q.Func], Q.name[3], Q.name[3])
    /\ (Succeeded /\ Q.Func = "group") =>
          /\ MetricOf(trans.sql).fn = "1"
          /\ MetricOf(trans.sql).name = <<Q.name[3]>>
    /\ (Succeeded /\ Q.Func \in {"count", "count_values"}) =>
          /\ Q.name[1] = "flow_log"
          /\ MetricOf(trans.sql) = MetricColumn("Sum", "log_count", Q.name[3])
          /\ MetricGrouped <=> Q.Func = "count_values"
    /\ (ValidGrouping /\ Q.Func \in {"count", "count_values"} /\ Q.name[1] # "flow_log") =>
          /\ trans.err = "only supported Count for flow_log"
          /\ trans.sql = NoSQL

\* C24: where a query to a native metrics db is aggregated (lines 151-205, not
\* run for a SHOW tags lookup), sum, avg, min, max and stddev give
\* Fn(`metric`) as metrics.metric, group gives the constant 1, count gives
\* Sum(`log_count`) for flow_log only and the error "only supported Count for
\* flow_log" elsewhere, and count_values gives the same and adds the metric to
\* the projection and the GROUP BY.
C24_AggregationMapping ==
    (Admitted /\ RoutedNative /\ ~req.showTag) => AggregationMapping

C24_Witness ==
    /\ Admitted /\ RoutedNative /\ ~req.showTag /\ Succeeded
    /\ Q.name[1] = "flow_log"
    /\ Q.Func = "count_values"
    /\ MetricGrouped
    /\ MetricOf(trans.sql).col = "log_count"

\* C29: a request that is translated has taken one token for each of its
\* queries.
C29_TokenPerQuery ==
    [][ (qpc = "idle" /\ qpc' = "translated" /\ trans'.err = "nil") =>
            bucket - bucket' = Len(req'.queries) ]_vars

\* getOrCreateCkwriter of writer p starts and publishes the writer it made
Publishes(p) == wpc[p] = "run" /\ wpc'[p] = "finish"

\* C25: when a writer handle is started and published, every peer has got
\* CREATE TABLE and the ALTER TABLEs of the width, or a warning was logged
\* for a peer that failed.
C25_ReplayedOnEveryPeer ==
    [][ \A p \in Writers :
          Publishes(p) =>
            \/ loc[p].warn > 0
            \/ \A n \in Peers :
                  peerTable[n] /\ (1..loc[p].count) \subseteq peerCols[n] ]_vars

\* C26: between two successes of a PrometheusWriter the warning "get writer
\* failed" is logged at most once, whatever GetCounter did in between.
C26_LoggedOncePerStreak == \A p \in Writers : warnings[p] <= 1

\* WriteBatch of writer p returns without error
BatchWritten(p) ==
    /\ wpc[p] = "finish" /\ loc[p].op = "WriteBatch" /\ loc[p].err = "nil"
    /\ wpc'[p] = "idle"

\* C30: a WriteBatch that succeeds puts all samples of the batch, in their
\* order, into the running writer published for the width of the first
\* sample, makes the flow tags of the first sample only and adds len(batch)
\* to MetricsCount; nothing is put or counted otherwise, so not for an empty
\* batch.
C30_BatchPut ==
    [][ /\ \A p \in Writers :
             BatchWritten(p) =>
                /\ loc[p].batch # <<>>
                /\ lastPut'.items = loc[p].batch
                /\ lastPut'.tagged = <<loc[p].batch[1]>>
                /\ lastPut'.writer = ckWriters[loc[p].batch[1] - 1]
                /\ lastPut'.writer \in running
                /\ counter'[p] = [counter[p] EXCEPT !.MetricsCount = @ + Len(loc[p].batch)]
        /\ (\/ lastPut' # lastPut
            \/ ckWriters' # ckWriters
            \/ \E p \in Writers : counter'[p].MetricsCount > counter[p].MetricsCount)
               => \E p \in Writers :
                     /\ loc[p].op \in {"WriteBatch", "InitTable"}
                     /\ loc[p].op = "WriteBatch" => loc[p].batch # <<>> ]_vars

C30_Witness ==
    /\ lastPut.items = <<2, 1>>
    /\ lastPut.writer = ckWriters[1]
    /\ lastPut.writer \in running
    /\ counter[1].MetricsCount = 2
(***************************************************************************)
(* Properties of the debug snapshot                                        *)
(***************************************************************************)
\* C23: while a refresh goroutine of a sub-cache is running, GetDebugCache
\* iterates the structures of that sub-cache only with Range (concurrent map)
\* or Iterator (concurrent set), never with a range statement over the map
\* itself, and so it is never ended by the runtime.
C23_SynchronisedIteration ==
    /\ (dpc = "reading" /\ RefreshWrites(iterating.cache))
          => iterating.how \in {"Range", "Iterator"}
    /\ debugOut # "fatal"

(***************************************************************************)
(* Properties of Start and of the token of the ID cache                    *)
(***************************************************************************)
\* the refresh() bodies in progress: the token was taken and is not yet put
\* back
InProgress == {p \in Callers : HoldsToken(p)}

\* C33: once Start has put the token in, the tokens in canRefresh and the
\* refresh() bodies in progress are one altogether, also when Start is invoked
\* a second time on the singleton.
C33_OneToken ==
    cpc[StartCaller] # "start" => canRefresh + Cardinality(InProgress) = 1

\* the outcome of a Start call: the step that leaves "returned"
StartOutcome(p, t) ==
    (cpc[p] = "returned" /\ cpc'[p] # "returned") =>
        IF refreshErr[p] = "err"
        THEN /\ cpc'[p] = "failed"
             /\ cpc'[t] = "unborn"
             /\ ~HoldsToken(p)
             /\ canRefresh' = canRefresh
        ELSE /\ cpc'[p] = "started"
             /\ cpc[t] = "unborn"
             /\ cpc'[t] = "wait"

\* C34: Start returns only after its tryRefresh returned; on an error of that
\* refresh it fails with the error, starts no ticker goroutine (which then
\* never refreshes) and has put the token back; otherwise it starts the one
\* ticker goroutine, which leaves only when the context is cancelled.
C34_StartThenTicker ==
    /\ [][StartOutcome(StartCaller, TickerCaller)]_vars
    /\ [][cpc'[StartCaller] \in {"failed", "started"}
              => cpc[StartCaller] \in {"returned", cpc'[StartCaller]}]_vars
    /\ [][cpc'[StartCaller] = "returned"
              => cpc[StartCaller] \in {"put", "returned"}]_vars
    /\ [](cpc[StartCaller] = "failed" => cpc[TickerCaller] = "unborn")
    /\ [](cpc[TickerCaller] # "unborn" => cpc[StartCaller] = "started")
    /\ [](cpc[TickerCaller] = "exit" => ctxDone)

\* Start failed, no ticker goroutine exists and the token is in the channel
C34_Witness ==
    /\ cpc[StartCaller] = "failed"
    /\ cpc[TickerCaller] = "unborn"
    /\ canRefresh = 1

\* C35: refresh() returns nil to tryRefresh only if none of the eight
\* sub-cache refreshes of the cycle returned an error, in egRunAhead as in eg.
C35_EveryErrorReported ==
    \A p \in Callers :
        (cpc[p] = "put" /\ refreshErr[p] = "nil") =>
            (egRunAhead[p].err = "nil" /\ eg[p].err = "nil")

(***************************************************************************)
(* Properties of parseMetric                                               *)
(***************************************************************************)
\* C38: promReaderTransToSQL returns from parseMetric for every value of
\* __name__, with a routing or with an error: no index of the split name is
\* out of range.
C38_ReturnsNormally == qpc # "panic" /\ ~trans.panic

\* the projection columns aliased `metrics.<metric>`
MetricColumnsOf(sql) == {i \in 1..Len(sql.select) : sql.select[i].kind = "metric"}

\* C39: a request whose first query has no matcher named __name__ gets an
\* error and no SQL; a SQL returned without error names a table and has
\* exactly one column aliased `metrics.<metric>`, of a metric with a name.
C39_NameRequired ==
    Admitted =>
        /\ Q.name = NoName => (trans.err # "nil" /\ trans.sql = NoSQL)
        /\ trans.err = "nil" =>
              /\ trans.sql.from.name # ""
              /\ Cardinality(MetricColumnsOf(trans.sql)) = 1
              /\ \A i \in MetricColumnsOf(trans.sql) : trans.sql.select[i].name # <<"">>

(***************************************************************************)
(* Properties of the querier statsd counter                                *)
(***************************************************************************)
\* QueryTimeAvg = QueryTimeSum / QueryCount, ApiTimeAvg = ApiTimeSum / ApiCount
AveragesOf(c) ==
    /\ c.QueryCount > 0 => c.QueryTimeAvg = c.QueryTimeSum \div c.QueryCount
    /\ c.QueryCount = 0 => c.QueryTimeSum = 0
    /\ c.ApiCount > 0 => c.ApiTimeAvg = c.ApiTimeSum \div c.ApiCount
    /\ c.ApiCount = 0 => c.ApiTimeSum = 0

\* C36: whenever GetCounter runs between the statements of WriteCk and
\* WriteApi, no goroutine divides by a count of zero, the statements of one
\* goroutine all reach the same ClickhouseCounter, and the counter GetCounter
\* handed out has the averages of its sums and counts.
C36_OneCounterPerCall ==
    /\ \A w \in StatWriters : sw[w].pc # "panic"
    /\ \A w \in StatWriters : ~sw[w].moved
    /\ AveragesOf(handed)

(***************************************************************************)
(* Properties of the resource cleaner                                      *)
(***************************************************************************)
\* the rows of the tables that refer to a parent row that does not exist
DanglingRefs(d) ==
    UNION { {<<c, r>> : r \in d.refs[c] \ d.ids[ParentOf[c]]} : c \in ChildTables }

DanglingPods(d) == {r \in d.pods : r.pod_node_id \notin d.ids["pod_node"]}

DanglingVifs(d) ==
    {r \in d.vifs :
        \/ r.devicetype = "pod" /\ r.deviceid \notin IDsOf(d.pods)
        \/ r.devicetype = "pod_node" /\ r.deviceid \notin d.ids["pod_node"]
        \/ r.devicetype = "pod_service" /\ r.deviceid \notin d.ids["pod_service"]}

DanglingIPs(d) ==
    {<<"lan_ip", r>> : r \in d.lanIPs \ IDsOf(d.vifs)}
        \cup {<<"wan_ip", r>> : r \in d.wanIPs \ IDsOf(d.vifs)}

NoDangling(d) ==
    /\ DanglingRefs(d) = {}
    /\ DanglingPods(d) = {}
    /\ DanglingVifs(d) = {}
    /\ DanglingIPs(d) = {}

\* every row a step deletes referred to a parent that did not exist
OnlyDanglingDeleted ==
    /\ \A c \in ChildTables :
          mysqlDb.refs[c] \ mysqlDb'.refs[c] \subseteq mysqlDb.refs[c] \ mysqlDb.ids[ParentOf[c]]
    /\ mysqlDb.pods \ mysqlDb'.pods \subseteq DanglingPods(mysqlDb)
    /\ mysqlDb.vifs \ mysqlDb'.vifs \subseteq DanglingVifs(mysqlDb)
    /\ mysqlDb.lanIPs \ mysqlDb'.lanIPs \subseteq mysqlDb.lanIPs \ IDsOf(mysqlDb.vifs)
    /\ mysqlDb.wanIPs \ mysqlDb'.wanIPs \subseteq mysqlDb.wanIPs \ IDsOf(mysqlDb.vifs)

\* a pass of cleanDirtyData after the one of Start deletes nothing
LaterPassIdle ==
    tpc["dirty"].at = "dirty" =>
        mysqlDb' = [mysqlDb EXCEPT !.expired = mysqlDb'.expired]

\* C31: when the pass of cleanDirtyData in Start is over, no covered row
\* refers to a parent that does not exist, whether the parent table has rows
\* or not; the pass deleted only such rows, and a later pass deletes nothing.
C31_NoDanglingAfterPass ==
    /\ [](lpc.at = "started" => NoDangling(mysqlDb))
    /\ [][OnlyDanglingDeleted]_vars
    /\ [][LaterPassIdle]_vars

\* C40: Start has run cleanDeletedData and cleanDirtyData and has started the
\* two goroutines when it returns, and once Stop has cancelled the context no
\* goroutine begins another run of cleanDeletedData or cleanDirtyData.
C40_NoRunAfterStop ==
    /\ [](lpc.at = "started" => \A t \in CleanerTasks : tpc[t].at # "unborn")
    /\ [][\A t \in CleanerTasks :
             (tpc[t].at = "wait" /\ tpc'[t].at # "wait") => ~cancelled]_vars

(***************************************************************************)
(* Properties of CheckJSONParam                                            *)
(***************************************************************************)
\* every key of every object of a text, at any depth
RECURSIVE KeysOfText(_)
KeysOfText(text) ==
    {text.members[i].key : i \in {j \in 1..Len(text.members) : text.kind = "object"}}
        \cup UNION {KeysOfText(text.members[i].value) : i \in 1..Len(text.members)}

\* the types a value of a type is made of: one step, and any number of steps
PartsOf(typ) ==
    ({GoTypes[typ].elem} \ {""})
        \cup {GoTypes[typ].fields[i].type : i \in 1..Len(GoTypes[typ].fields)}

RECURSIVE Reach(_)
Reach(types) ==
    LET more == types \cup UNION {PartsOf(t) : t \in types}
    IN  IF more = types THEN types ELSE Reach(more)

\* the json tags of the fields reachable in a type
ReachableTags(typ) ==
    UNION { {GoTypes[t].fields[i].tag : i \in 1..Len(GoTypes[t].fields)} \ {""} :
              t \in Reach({typ}) }

KnownKeysOnly ==
    /\ jsonString.kind = "object"
    /\ KeysOfText(jsonString) \subseteq ReachableTags(vType)

\* C32: CheckJSONParam returns nil exactly for a JSON object all of whose
\* keys, at any depth, are json tags of fields reachable in the type of v;
\* otherwise it returns rogue field(key) for a key that is no such tag, or
\* the error of a text that is not a JSON object.
C32_NilIffKnownKeys ==
    jerr.kind # "pending" =>
        /\ jerr.kind = "nil" <=> KnownKeysOnly
        /\ ~KnownKeysOnly =>
              \/ /\ jerr.kind = "rogue field"
                 /\ jerr.key \in KeysOfText(jsonString) \ ReachableTags(vType)
              \/ /\ jerr.kind = "not a valid JSON string"
                 /\ jsonString.kind # "object"

(***************************************************************************)
(* Properties of the counter of the writer                                 *)
(***************************************************************************)
\* C37: a Counter returned by GetCounter holds, when it is returned, every
\* increment made on it: no WriteBatch adds to MetricsCount or WriteErr of a
\* Counter that GetCounter has handed out.
C37_NoIncrementAfterHandOut ==
    [][\A p \in Writers :
          returned'[p] # returned[p] =>
              /\ returned'[p] = counter[p]
              /\ counter'[p] = ZeroCounter]_vars

====
